---- MODULE Spec2Model ----
(***************************************************************************)
(* A model of netd's RouteController (server/RouteController.cpp): the     *)
(* interface-index cache, the rule and route encoders, the composite       *)
(* policy operations and the kernel tables they act on.                    *)
(*                                                                         *)
(* The kernel is the environment.  Its rule chains (one per address        *)
(* family) and its route tables are sets of the entries the requests       *)
(* describe.  A create request carries NLM_F_CREATE | NLM_F_EXCL, so the   *)
(* kernel answers -EEXIST when the entry is there already; a delete of an  *)
(* entry that is not there is answered -ENOENT (rules) or -ESRCH (routes). *)
(* Any request can also fail with an injected error (fault).               *)
(***************************************************************************)
EXTENDS Integers, Sequences, FiniteSets, TLC

(***************************************************************************)
(* Bounds of the model.                                                    *)
(***************************************************************************)
\* interface indices the kernel hands out are 1..MaxIfIndex
MaxIfIndex == 2
\* public operations per behaviour, all operations at hand
MaxOps == 2
\* public operations per behaviour, the network operations at hand
MaxNetOps == 3
\* interface arrivals and removals per behaviour
MaxIfEvents == 2
\* calls per behaviour that meet an injected fault
MaxFaults == 1

(***************************************************************************)
(* Program constants.                                                      *)
(***************************************************************************)
RULE_PRIORITY_PRIVILEGED_LEGACY == 11000
RULE_PRIORITY_SECURE_VPN == 12000
RULE_PRIORITY_PER_NETWORK_EXPLICIT == 13000
RULE_PRIORITY_PER_NETWORK_INTERFACE == 14000
RULE_PRIORITY_LEGACY == 16000
RULE_PRIORITY_PER_NETWORK_NORMAL == 17000
RULE_PRIORITY_DEFAULT_NETWORK == 19000
RULE_PRIORITY_MAIN == 20000

\* RouteController::ROUTE_TABLE_OFFSET_FROM_INDEX (RouteController.h)
ROUTE_TABLE_OFFSET_FROM_INDEX == 1000
ROUTE_TABLE_PRIVILEGED_LEGACY == ROUTE_TABLE_OFFSET_FROM_INDEX - 901
ROUTE_TABLE_LEGACY == ROUTE_TABLE_OFFSET_FROM_INDEX - 902
\* <linux/rtnetlink.h>
RT_TABLE_MAIN == 254

\* static_cast<uid_t>(-1), kept as -1
INVALID_UID == -1
\* <net/if.h>
IFNAMSIZ == 16

\* errno values (returned negated)
ENOENT == 2
ESRCH == 3
ENOMEM == 12
EFAULT == 14
EEXIST == 17
ENODEV == 19
EINVAL == 22
ERANGE == 34
ENAMETOOLONG == 36
EBADMSG == 74
EUSERS == 87
EREMOTEIO == 121

\* a null pointer argument
NULL == "<NULL>"

AF_FAMILIES == <<"AF_INET", "AF_INET6">>
IP_VERSIONS == <<"-4", "-6">>
IP_PATH == "/system/bin/ip"

\* Permission.h
PERMISSION_NONE == 0
PERMISSION_CHANGE_NETWORK_STATE == 1
PERMISSION_CONNECTIVITY_INTERNAL == 2

\* Fwmark.h
FWMARK_NET_ID_MASK == 65535

(***************************************************************************)
(* Input sets.                                                             *)
(***************************************************************************)
Interfaces == {"wlan0"}
\* a name of 16 characters: with its terminator it does not fit IFNAMSIZ
LongInterface == "wlan0123456789ab"
NetIds == {5}
Permissions == {PERMISSION_NONE, PERMISSION_CONNECTIVITY_INTERNAL}
\* the error of a request that fails for a reason outside the kernel's tables; the
\* code tells no such error from another
FaultErrs == {-ENOMEM}

(***************************************************************************)
(* Fwmark (Fwmark.h): a union of a 32-bit intValue and the bit fields      *)
(* netId:16, explicitlySelected:1, protectedFromVpn:1, permission:2.       *)
(***************************************************************************)
Fwmark == [netId |-> 0, explicitlySelected |-> FALSE, protectedFromVpn |-> FALSE,
           permission |-> PERMISSION_NONE]

intValue(f) ==
    f.netId + (IF f.explicitlySelected THEN 65536 ELSE 0)
            + (IF f.protectedFromVpn THEN 131072 ELSE 0)
            + 262144 * f.permission

\* a & ~m on unsigned integers
RECURSIVE AndNot(_, _)
AndNot(a, m) ==
    IF a = 0 THEN 0
    ELSE (IF a % 2 = 1 /\ m % 2 = 0 THEN 1 ELSE 0) + 2 * AndNot(a \div 2, m \div 2)

\* a & m on unsigned integers
RECURSIVE BitAnd(_, _)
BitAnd(a, m) ==
    IF a = 0 \/ m = 0 THEN 0
    ELSE (IF a % 2 = 1 /\ m % 2 = 1 THEN 1 ELSE 0) + 2 * BitAnd(a \div 2, m \div 2)

(***************************************************************************)
(* Number formatting: snprintf "%x" and "%u".                              *)
(***************************************************************************)
HexDigits == <<"0", "1", "2", "3", "4", "5", "6", "7", "8", "9",
               "a", "b", "c", "d", "e", "f">>

RECURSIVE HexString(_)
HexString(n) ==
    IF n < 16 THEN HexDigits[n + 1]
    ELSE HexString(n \div 16) \o HexDigits[(n % 16) + 1]

RECURSIVE DecString(_)
DecString(n) ==
    IF n < 10 THEN HexDigits[n + 1]
    ELSE DecString(n \div 10) \o HexDigits[(n % 10) + 1]

(***************************************************************************)
(* State.                                                                  *)
(***************************************************************************)
VARIABLES
    ifindex,           \* kernel: interface name -> index, 0 when there is no such interface
    ipRules,           \* kernel: address family -> the set of installed rules
    ipRoutes,          \* kernel: the set of installed routes (all tables)
    iptables,          \* mangle INPUT chain: the sequence of MARK rules
    interfaceToIndex,  \* the interface-index cache (a map: name -> index)
    last,              \* the call that just returned: operation, arguments, result,
                       \* requests sent, and the state it started from
    lastLive,          \* name -> table id of the last resolution that found the interface
    flushedSince,      \* name -> flushRoutes erased the name since that resolution
    opsLeft,           \* calls the behaviour may still make
    faultsDone,        \* calls that met an injected fault
    ifEvents           \* interface arrivals and removals so far

vars == <<ifindex, ipRules, ipRoutes, iptables, interfaceToIndex, last,
          lastLive, flushedSince, opsLeft, faultsDone, ifEvents>>

Families == {AF_FAMILIES[i] : i \in 1..Len(AF_FAMILIES)}

(***************************************************************************)
(* The world an operation runs in: the kernel tables, the cache and what   *)
(* the operation has sent so far.  fault = [at |-> k, err |-> e] makes the *)
(* k-th request or tool invocation of the operation fail with e; for a     *)
(* request, stage names the system call that fails (with errno -e), or     *)
(* "size" for an acknowledgment of the wrong size.                         *)
(***************************************************************************)
World(f) ==
    [ifx |-> ifindex, rules |-> ipRules, routes |-> ipRoutes, ipt |-> iptables,
     cache |-> interfaceToIndex, trace |-> <<>>, log |-> <<>>, fault |-> f]

NoFault == [at |-> 0, err |-> 0, stage |-> "none"]

\* if_nametoindex(): 0 when there is no interface of that name
if_nametoindex(ifx, name) == IF name \in DOMAIN ifx THEN ifx[name] ELSE 0

\* the element of a one-element set; {e(x) : x \in {v}} evaluates v once and
\* names its value x
The(S) == CHOOSE x \in S : TRUE

MapPut(m, k, v) == [x \in DOMAIN m \cup {k} |-> IF x = k THEN v ELSE m[x]]
MapErase(m, k) == [x \in DOMAIN m \ {k} |-> m[x]]

(***************************************************************************)
(* getRouteTableForInterface.  The log records each lookup and its answer. *)
(***************************************************************************)
\* A variant that never remembers an index, which the property of the cache tells
\* apart from the function.
getRouteTableForInterface_NoCache(w, interface) ==
    The({ LET table == IF index # 0 THEN index + ROUTE_TABLE_OFFSET_FROM_INDEX ELSE 0
          IN  [w |-> [w EXCEPT !.log = Append(@, [ev |-> "resolve", name |-> interface,
                                                  index |-> index, table |-> table])],
               table |-> table]
          : index \in {if_nametoindex(w.ifx, interface)} })

getRouteTableForInterface(w, interface) ==
    The({ LET cached == IF index # 0 THEN index
                        ELSE IF interface \in DOMAIN w.cache THEN w.cache[interface]
                        ELSE 0
              table == IF cached # 0 THEN cached + ROUTE_TABLE_OFFSET_FROM_INDEX ELSE 0
              cache2 == IF index # 0 THEN MapPut(w.cache, interface, index) ELSE w.cache
          IN  [w |-> [w EXCEPT !.cache = cache2,
                               !.log = Append(@, [ev |-> "resolve", name |-> interface,
                                                  index |-> index, table |-> table])],
               table |-> table]
          : index \in {if_nametoindex(w.ifx, interface)} })

(***************************************************************************)
(* The kernel's answer to one netlink request.                             *)
(***************************************************************************)
\* RTM_DELROUTE matches on table, destination and outgoing interface, and on the
\* gateway only when the request names one
RouteMatches(r, q) ==
    /\ r.table = q.table /\ r.dst = q.dst /\ r.oif = q.oif
    /\ (q.gw = NULL \/ r.gw = q.gw)

KernelAnswer_Idempotent(w, req) ==
    IF req.kind = "rule" THEN
        IF req.action = "RTM_NEWRULE"
        THEN [ret |-> 0, rules |-> [w.rules EXCEPT ![req.family] = @ \cup {req.body}],
              routes |-> w.routes]
        ELSE [ret |-> 0, rules |-> [w.rules EXCEPT ![req.family] = @ \ {req.body}],
              routes |-> w.routes]
    ELSE
        IF req.action = "RTM_NEWROUTE" THEN
            IF \E r \in w.routes : r.table = req.body.table /\ r.dst = req.body.dst
            THEN [ret |-> -EEXIST, rules |-> w.rules, routes |-> w.routes]
            ELSE [ret |-> 0, rules |-> w.rules, routes |-> w.routes \cup {req.body}]
        ELSE
            IF \A r \in w.routes : ~RouteMatches(r, req.body)
            THEN [ret |-> -ESRCH, rules |-> w.rules, routes |-> w.routes]
            ELSE [ret |-> 0, rules |-> w.rules,
                  routes |-> {r \in w.routes : ~RouteMatches(r, req.body)}]

KernelAnswer(w, req) ==
    IF req.kind = "rule" THEN
        IF req.action = "RTM_NEWRULE" THEN
            IF req.body \in w.rules[req.family]
            THEN [ret |-> -EEXIST, rules |-> w.rules, routes |-> w.routes]
            ELSE [ret |-> 0, rules |-> [w.rules EXCEPT ![req.family] = @ \cup {req.body}],
                  routes |-> w.routes]
        ELSE
            IF req.body \notin w.rules[req.family]
            THEN [ret |-> -ENOENT, rules |-> w.rules, routes |-> w.routes]
            ELSE [ret |-> 0, rules |-> [w.rules EXCEPT ![req.family] = @ \ {req.body}],
                  routes |-> w.routes]
    ELSE
        IF req.action = "RTM_NEWROUTE" THEN
            IF \E r \in w.routes : r.table = req.body.table /\ r.dst = req.body.dst
            THEN [ret |-> -EEXIST, rules |-> w.rules, routes |-> w.routes]
            ELSE [ret |-> 0, rules |-> w.rules, routes |-> w.routes \cup {req.body}]
        ELSE
            IF \A r \in w.routes : ~RouteMatches(r, req.body)
            THEN [ret |-> -ESRCH, rules |-> w.rules, routes |-> w.routes]
            ELSE [ret |-> 0, rules |-> w.rules,
                  routes |-> {r \in w.routes : ~RouteMatches(r, req.body)}]

(***************************************************************************)
(* sendNetlinkRequest: one datagram, one acknowledgment; returns the       *)
(* kernel's error or -errno of the failing call.                           *)
(***************************************************************************)
\* the calls of the chain socket() && connect() && writev() && recv(), up to the
\* first that fails
Attempted(stage) ==
    LET chain == <<"socket", "connect", "writev", "recv">>
        n == CASE stage = "socket" -> 1 [] stage = "connect" -> 2
               [] stage = "writev" -> 3 [] OTHER -> 4
    IN [k \in 1..n |-> [call |-> chain[k], ok |-> chain[k] # stage]]

\* A variant of sendNetlinkRequest that closes the socket only after it has read
\* an acknowledgment.
sendNetlinkRequest_Leak(w, request) ==
    The({ The({ [w |-> [w EXCEPT !.rules = ans.rules, !.routes = ans.routes,
                                 !.trace = Append(@, [kind |-> req.kind,
                                                      action |-> req.action,
                                                      family |-> req.family,
                                                      body |-> req.body,
                                                      res |-> ans.ret,
                                                      calls |-> ans.calls])],
                 ret |-> ans.ret]
                : ans \in {LET stage == IF w.fault.at = Len(w.trace) + 1
                                        THEN w.fault.stage ELSE "none"
                               kernel == KernelAnswer(w, req)
                           IN IF stage \in {"socket", "connect", "writev"}
                              THEN [ret |-> w.fault.err, rules |-> w.rules,
                                    routes |-> w.routes, calls |-> Attempted(stage)]
                              ELSE [ret |-> CASE stage = "recv" -> w.fault.err
                                              [] stage = "size" -> -EBADMSG
                                              [] OTHER -> kernel.ret,
                                    rules |-> kernel.rules, routes |-> kernel.routes,
                                    calls |-> IF stage = "recv" THEN Attempted(stage)
                                              ELSE Append(Attempted(stage),
                                                          [call |-> "close",
                                                           ok |-> TRUE])]} })
          : req \in {request} })

\* The kernel acts on the datagram once writev() has sent it, whatever becomes of
\* the acknowledgment.
sendNetlinkRequest(w, request) ==
    The({ The({ [w |-> [w EXCEPT !.rules = ans.rules, !.routes = ans.routes,
                                 !.trace = Append(@, [kind |-> req.kind,
                                                      action |-> req.action,
                                                      family |-> req.family,
                                                      body |-> req.body,
                                                      res |-> ans.ret,
                                                      calls |-> ans.calls])],
                 ret |-> ans.ret]
                : ans \in {LET stage == IF w.fault.at = Len(w.trace) + 1
                                        THEN w.fault.stage ELSE "none"
                               kernel == KernelAnswer(w, req)
                               \* if (sock != -1) close(sock)
                               calls == IF stage = "socket" THEN Attempted(stage)
                                        ELSE Append(Attempted(stage),
                                                    [call |-> "close", ok |-> TRUE])
                           IN IF stage \in {"socket", "connect", "writev"}
                              THEN [ret |-> w.fault.err, rules |-> w.rules,
                                    routes |-> w.routes, calls |-> calls]
                              ELSE [ret |-> CASE stage = "recv" -> w.fault.err
                                              [] stage = "size" -> -EBADMSG
                                              [] OTHER -> kernel.ret,
                                    rules |-> kernel.rules, routes |-> kernel.routes,
                                    calls |-> calls]} })
          : req \in {request} })

(***************************************************************************)
(* modifyIpRule: adds or removes a routing rule for IPv4 and IPv6.         *)
(***************************************************************************)
\* strlcpy(oifname, interface, IFNAMSIZ) returns strlen(interface)
strlcpy(interface) == Len(interface)

\* the rule the request describes: the mark and mask attributes are sent only with
\* a nonzero mask
RuleRequest(action, family, priority, table, fwmark, mask, interface, uidStart, uidEnd) ==
    [kind |-> "rule", action |-> action, family |-> family,
     body |-> [priority |-> priority, table |-> table,
               fwmark |-> IF mask # 0 THEN fwmark ELSE 0, mask |-> mask,
               oif |-> interface,
               uidStart |-> uidStart, uidEnd |-> uidEnd]]

\* Variants of modifyIpRule that the properties of the rule encoder tell apart
\* from it.  The first accepts a mark the mask does not cover.
modifyIpRule_NoMaskCheck(w, action, priority, table, fwmark, mask, interface, uidStart, uidEnd) ==
    IF interface # NULL /\ strlcpy(interface) + 1 > IFNAMSIZ
    THEN [w |-> w, ret |-> -ENAMETOOLONG]
    ELSE IF (uidStart = INVALID_UID) # (uidEnd = INVALID_UID)
    THEN [w |-> w, ret |-> -EUSERS]
    ELSE
        The({ IF r1.ret # 0 THEN r1
              ELSE sendNetlinkRequest(r1.w, RuleRequest(action, AF_FAMILIES[2], priority,
                                                        table, fwmark, mask, interface,
                                                        uidStart, uidEnd))
              : r1 \in {sendNetlinkRequest(w, RuleRequest(action, AF_FAMILIES[1], priority,
                                                          table, fwmark, mask, interface,
                                                          uidStart, uidEnd))} })

\* The second looks at the interface name before it looks at the mark.
modifyIpRule_NameFirst(w, action, priority, table, fwmark, mask, interface, uidStart, uidEnd) ==
    IF interface # NULL /\ strlcpy(interface) + 1 > IFNAMSIZ
    THEN [w |-> w, ret |-> -ENAMETOOLONG]
    ELSE IF AndNot(fwmark, mask) # 0 THEN [w |-> w, ret |-> -ERANGE]
    ELSE IF (uidStart = INVALID_UID) # (uidEnd = INVALID_UID)
    THEN [w |-> w, ret |-> -EUSERS]
    ELSE
        The({ IF r1.ret # 0 THEN r1
              ELSE sendNetlinkRequest(r1.w, RuleRequest(action, AF_FAMILIES[2], priority,
                                                        table, fwmark, mask, interface,
                                                        uidStart, uidEnd))
              : r1 \in {sendNetlinkRequest(w, RuleRequest(action, AF_FAMILIES[1], priority,
                                                          table, fwmark, mask, interface,
                                                          uidStart, uidEnd))} })

\* The third sends the IPv6 request whatever the IPv4 request returned.
modifyIpRule_NoStop(w, action, priority, table, fwmark, mask, interface, uidStart, uidEnd) ==
    IF AndNot(fwmark, mask) # 0 THEN [w |-> w, ret |-> -ERANGE]
    ELSE IF interface # NULL /\ strlcpy(interface) + 1 > IFNAMSIZ
    THEN [w |-> w, ret |-> -ENAMETOOLONG]
    ELSE IF (uidStart = INVALID_UID) # (uidEnd = INVALID_UID)
    THEN [w |-> w, ret |-> -EUSERS]
    ELSE
        The({ The({ IF r1.ret # 0 THEN [w |-> r2.w, ret |-> r1.ret] ELSE r2
                    : r2 \in {sendNetlinkRequest(r1.w, RuleRequest(action, AF_FAMILIES[2],
                                                                   priority, table, fwmark,
                                                                   mask, interface, uidStart,
                                                                   uidEnd))} })
              : r1 \in {sendNetlinkRequest(w, RuleRequest(action, AF_FAMILIES[1], priority,
                                                          table, fwmark, mask, interface,
                                                          uidStart, uidEnd))} })

modifyIpRule(w, action, priority, table, fwmark, mask, interface, uidStart, uidEnd) ==
    \* Ensure that if you set a bit in the fwmark, it's not being ignored by the mask.
    IF AndNot(fwmark, mask) # 0 THEN [w |-> w, ret |-> -ERANGE]
    \* The interface name must include exactly one terminating NULL.
    ELSE IF interface # NULL /\ strlcpy(interface) + 1 > IFNAMSIZ
    THEN [w |-> w, ret |-> -ENAMETOOLONG]
    \* Either both start and end UID must be specified, or neither.
    ELSE IF (uidStart = INVALID_UID) # (uidEnd = INVALID_UID)
    THEN [w |-> w, ret |-> -EUSERS]
    ELSE
        The({ IF r1.ret # 0 THEN r1
              ELSE sendNetlinkRequest(r1.w, RuleRequest(action, AF_FAMILIES[2], priority,
                                                        table, fwmark, mask, interface,
                                                        uidStart, uidEnd))
              : r1 \in {sendNetlinkRequest(w, RuleRequest(action, AF_FAMILIES[1], priority,
                                                          table, fwmark, mask, interface,
                                                          uidStart, uidEnd))} })

(***************************************************************************)
(* modifyIpRoute: adds or deletes one IPv4 or IPv6 route.                  *)
(***************************************************************************)
\* parsePrefix (NetdConstants): the length of the raw address and the family of a
\* CIDR literal, or a negative errno as the length of a malformed one
parsePrefix(destination) ==
    CASE destination = "10.0.0.0/24" -> [rawLength |-> 4, family |-> "AF_INET"]
      [] destination = "192.0.2.0/24" -> [rawLength |-> 4, family |-> "AF_INET"]
      [] destination = "2001:db8::/64" -> [rawLength |-> 16, family |-> "AF_INET6"]
      [] OTHER -> [rawLength |-> -EINVAL, family |-> "AF_UNSPEC"]

\* inet_pton(family, nexthop, ...) > 0: the literal is an address of that family
inet_pton(family, nexthop) ==
    CASE nexthop = "10.0.0.1" -> family = "AF_INET"
      [] nexthop = "2001:db8::1" -> family = "AF_INET6"
      [] OTHER -> FALSE

RouteRequest(action, family, table, ifidx, destination, nexthop) ==
    [kind |-> "route", action |-> action, family |-> family,
     body |-> [table |-> table, family |-> family, dst |-> destination,
               oif |-> ifidx, gw |-> nexthop]]

modifyIpRoute(w, action, table, interface, destination, nexthop) ==
    \* At least the destination must be non-null.
    IF destination = NULL THEN [w |-> w, ret |-> -EFAULT]
    ELSE
    LET parsed == parsePrefix(destination)
        family == parsed.family
        idx == IF interface # NULL THEN if_nametoindex(w.ifx, interface) ELSE 0
    IN  IF parsed.rawLength < 0 THEN [w |-> w, ret |-> parsed.rawLength]
        \* If an interface was specified, find the ifindex.
        ELSE IF interface # NULL /\ idx = 0 THEN [w |-> w, ret |-> -ENODEV]
        \* If a nexthop was specified, parse it as the same family as the prefix.
        ELSE IF nexthop # NULL /\ ~inet_pton(family, nexthop) THEN [w |-> w, ret |-> -EINVAL]
        ELSE sendNetlinkRequest(w, RouteRequest(action, family, table, idx, destination,
                                                nexthop))

(***************************************************************************)
(* External tools.                                                         *)
(***************************************************************************)
\* execIptables(V4V6, "-t", "mangle", "-A" | "-D", "INPUT", "-i", interface, "-j",
\* "MARK", "--set-mark", markString): -A appends the rule to the chain, -D deletes
\* its first copy and fails when there is none.  Returns nonzero on failure.
execIptables(w, flag, interface, markString) ==
    LET rule == [iface |-> interface, mark |-> markString]
        at == {i \in 1..Len(w.ipt) : w.ipt[i] = rule}
        first == CHOOSE i \in at : \A j \in at : i <= j
    IN  The({ [w |-> [w EXCEPT !.ipt = IF res # 0 THEN @
                                       ELSE IF flag = "-A" THEN Append(@, rule)
                                       ELSE SubSeq(@, 1, first - 1)
                                            \o SubSeq(@, first + 1, Len(@)),
                               !.trace = Append(@, [kind |-> "iptables", action |-> flag,
                                                    family |-> "V4V6", body |-> rule,
                                                    res |-> res])],
               ret |-> res]
              : res \in {IF w.fault.at = Len(w.trace) + 1 THEN 1
                         ELSE IF flag = "-D" /\ at = {} THEN 1
                         ELSE 0} })

\* android_fork_execvp(argc, argv, NULL, false, false) running the ip tool: the exit
\* status of "ip <version> route flush table <id>", which removes every route of that
\* family from the table; any other object or command is refused by the tool.
android_fork_execvp(w, argv) ==
    LET wellFormed == /\ Len(argv) = 6
                      /\ argv[1] = IP_PATH
                      /\ argv[2] \in {"-4", "-6"}
                      /\ argv[3] = "route" /\ argv[4] = "flush" /\ argv[5] = "table"
        fam == IF argv[2] = "-4" THEN "AF_INET" ELSE "AF_INET6"
    IN  The({ [w |-> [w EXCEPT !.routes = IF res # 0 THEN @
                                          ELSE {r \in @ : ~(r.family = fam
                                                            /\ DecString(r.table) = argv[6])},
                               !.trace = Append(@, [kind |-> "exec", action |-> "ip",
                                                    family |-> argv[2], body |-> argv,
                                                    res |-> res])],
               ret |-> res]
              : res \in {IF w.fault.at = Len(w.trace) + 1 THEN 1
                         ELSE IF ~wellFormed THEN 255
                         ELSE 0} })

(***************************************************************************)
(* The composite rule operations.                                          *)
(***************************************************************************)
Failed(w, ret) == [w |-> w, ret |-> ret]

\* A variant that goes on to the second rule when the first one failed, which the
\* property of the first failure tells apart from the function.
modifyPerNetworkRules_KeepGoing(w, netId, interface, permission, add, modifyIptables) ==
    LET action == IF add THEN "RTM_NEWRULE" ELSE "RTM_DELRULE"
        \* A rule to route traffic based on a chosen outgoing interface.
        fwmark1 == [Fwmark EXCEPT !.permission = permission]
        mask1 == [Fwmark EXCEPT !.permission = permission]
        \* A rule to route traffic based on the chosen network.
        fwmark2 == [fwmark1 EXCEPT !.netId = netId % 65536]
        mask2 == [mask1 EXCEPT !.netId = FWMARK_NET_ID_MASK]
        \* A rule to route traffic based on an explicitly chosen network.
        fwmark3 == [fwmark2 EXCEPT !.explicitlySelected = TRUE]
        mask3 == [mask2 EXCEPT !.explicitlySelected = TRUE]
    IN
    The({ IF t.table = 0 THEN Failed(t.w, -ESRCH) ELSE
    The({
    The({ IF r2.ret # 0 THEN r2 ELSE IF r1.ret # 0 THEN Failed(r2.w, r1.ret) ELSE
    The({ IF r3.ret # 0 THEN r3
          ELSE IF ~modifyIptables THEN Failed(r3.w, 0)
          \* An iptables rule to mark incoming packets on a network with the netId.
          ELSE The({ IF r4.ret # 0 THEN Failed(r4.w, -EREMOTEIO) ELSE Failed(r4.w, 0)
                     : r4 \in {execIptables(r3.w, IF add THEN "-A" ELSE "-D", interface,
                                            "0x" \o HexString(netId))} })
          : r3 \in {modifyIpRule(r2.w, action, RULE_PRIORITY_PER_NETWORK_EXPLICIT, t.table,
                                 intValue(fwmark3), intValue(mask3), NULL,
                                 INVALID_UID, INVALID_UID)} })
          : r2 \in {modifyIpRule(r1.w, action, RULE_PRIORITY_PER_NETWORK_NORMAL, t.table,
                                 intValue(fwmark2), intValue(mask2), NULL,
                                 INVALID_UID, INVALID_UID)} })
          : r1 \in {modifyIpRule(t.w, action, RULE_PRIORITY_PER_NETWORK_INTERFACE, t.table,
                                 intValue(fwmark1), intValue(mask1), interface,
                                 INVALID_UID, INVALID_UID)} })
          : t \in {getRouteTableForInterface(w, interface)} })

modifyPerNetworkRules(w, netId, interface, permission, add, modifyIptables) ==
    LET action == IF add THEN "RTM_NEWRULE" ELSE "RTM_DELRULE"
        \* A rule to route traffic based on a chosen outgoing interface.
        fwmark1 == [Fwmark EXCEPT !.permission = permission]
        mask1 == [Fwmark EXCEPT !.permission = permission]
        \* A rule to route traffic based on the chosen network.
        fwmark2 == [fwmark1 EXCEPT !.netId = netId % 65536]
        mask2 == [mask1 EXCEPT !.netId = FWMARK_NET_ID_MASK]
        \* A rule to route traffic based on an explicitly chosen network.
        fwmark3 == [fwmark2 EXCEPT !.explicitlySelected = TRUE]
        mask3 == [mask2 EXCEPT !.explicitlySelected = TRUE]
    IN
    The({ IF t.table = 0 THEN Failed(t.w, -ESRCH) ELSE
    The({ IF r1.ret # 0 THEN r1 ELSE
    The({ IF r2.ret # 0 THEN r2 ELSE
    The({ IF r3.ret # 0 THEN r3
          ELSE IF ~modifyIptables THEN Failed(r3.w, 0)
          \* An iptables rule to mark incoming packets on a network with the netId.
          ELSE The({ IF r4.ret # 0 THEN Failed(r4.w, -EREMOTEIO) ELSE Failed(r4.w, 0)
                     : r4 \in {execIptables(r3.w, IF add THEN "-A" ELSE "-D", interface,
                                            "0x" \o HexString(netId))} })
          : r3 \in {modifyIpRule(r2.w, action, RULE_PRIORITY_PER_NETWORK_EXPLICIT, t.table,
                                 intValue(fwmark3), intValue(mask3), NULL,
                                 INVALID_UID, INVALID_UID)} })
          : r2 \in {modifyIpRule(r1.w, action, RULE_PRIORITY_PER_NETWORK_NORMAL, t.table,
                                 intValue(fwmark2), intValue(mask2), NULL,
                                 INVALID_UID, INVALID_UID)} })
          : r1 \in {modifyIpRule(t.w, action, RULE_PRIORITY_PER_NETWORK_INTERFACE, t.table,
                                 intValue(fwmark1), intValue(mask1), interface,
                                 INVALID_UID, INVALID_UID)} })
          : t \in {getRouteTableForInterface(w, interface)} })

\* A variant of modifyVpnRules whose second rule still requires the
\* protected-from-VPN bit to be clear.
modifyVpnRules_ExemptionProtected(w, netId, interface, action) ==
    LET fwmark1 == [Fwmark EXCEPT !.protectedFromVpn = FALSE]
        mask1 == [Fwmark EXCEPT !.protectedFromVpn = TRUE]
        fwmark2 == [fwmark1 EXCEPT !.netId = netId % 65536,
                                   !.permission = PERMISSION_CONNECTIVITY_INTERNAL]
        mask2 == [mask1 EXCEPT !.netId = FWMARK_NET_ID_MASK,
                               !.permission = PERMISSION_CONNECTIVITY_INTERNAL]
    IN
    The({ IF t.table = 0 THEN Failed(t.w, -ESRCH) ELSE
    The({ IF r1.ret # 0 THEN r1
          ELSE modifyIpRule(r1.w, action, RULE_PRIORITY_SECURE_VPN, t.table,
                            intValue(fwmark2), intValue(mask2), NULL,
                            INVALID_UID, INVALID_UID)
          : r1 \in {modifyIpRule(t.w, action, RULE_PRIORITY_SECURE_VPN, t.table,
                                 intValue(fwmark1), intValue(mask1), NULL,
                                 INVALID_UID, INVALID_UID)} })
          : t \in {getRouteTableForInterface(w, interface)} })

modifyVpnRules(w, netId, interface, action) ==
    LET \* A rule to route all traffic from a given set of UIDs to go over the VPN.
        fwmark1 == [Fwmark EXCEPT !.protectedFromVpn = FALSE]
        mask1 == [Fwmark EXCEPT !.protectedFromVpn = TRUE]
        \* A rule to allow privileged apps to send traffic over this VPN.
        fwmark2 == [fwmark1 EXCEPT !.protectedFromVpn = FALSE, !.netId = netId % 65536,
                                   !.permission = PERMISSION_CONNECTIVITY_INTERNAL]
        mask2 == [mask1 EXCEPT !.protectedFromVpn = FALSE, !.netId = FWMARK_NET_ID_MASK,
                               !.permission = PERMISSION_CONNECTIVITY_INTERNAL]
    IN
    The({ IF t.table = 0 THEN Failed(t.w, -ESRCH) ELSE
    The({ IF r1.ret # 0 THEN r1
          ELSE modifyIpRule(r1.w, action, RULE_PRIORITY_SECURE_VPN, t.table,
                            intValue(fwmark2), intValue(mask2), NULL,
                            INVALID_UID, INVALID_UID)
          : r1 \in {modifyIpRule(t.w, action, RULE_PRIORITY_SECURE_VPN, t.table,
                                 intValue(fwmark1), intValue(mask1), NULL,
                                 INVALID_UID, INVALID_UID)} })
          : t \in {getRouteTableForInterface(w, interface)} })

\* A variant of modifyDefaultNetworkRules that places its rule after the rule for
\* the main table.
modifyDefaultNetworkRules_AfterMain(w, interface, permission, action) ==
    LET fwmark == [Fwmark EXCEPT !.netId = 0, !.permission = permission]
        mask == [Fwmark EXCEPT !.netId = FWMARK_NET_ID_MASK, !.permission = permission]
    IN
    The({ IF t.table = 0 THEN Failed(t.w, -ESRCH)
          ELSE modifyIpRule(t.w, action, RULE_PRIORITY_MAIN + 1000, t.table,
                            intValue(fwmark), intValue(mask), NULL,
                            INVALID_UID, INVALID_UID)
          : t \in {getRouteTableForInterface(w, interface)} })

\* A variant of modifyDefaultNetworkRules that does not test the table it got.
modifyDefaultNetworkRules_NoTableCheck(w, interface, permission, action) ==
    LET fwmark == [Fwmark EXCEPT !.netId = 0, !.permission = permission]
        mask == [Fwmark EXCEPT !.netId = FWMARK_NET_ID_MASK, !.permission = permission]
    IN
    The({ modifyIpRule(t.w, action, RULE_PRIORITY_DEFAULT_NETWORK, t.table,
                       intValue(fwmark), intValue(mask), NULL,
                       INVALID_UID, INVALID_UID)
          : t \in {getRouteTableForInterface(w, interface)} })

\* A variant of modifyDefaultNetworkRules whose mask leaves the permission out.
modifyDefaultNetworkRules_MaskNoPermission(w, interface, permission, action) ==
    LET fwmark == [Fwmark EXCEPT !.netId = 0, !.permission = permission]
        mask == [Fwmark EXCEPT !.netId = FWMARK_NET_ID_MASK]
    IN
    The({ IF t.table = 0 THEN Failed(t.w, -ESRCH)
          ELSE modifyIpRule(t.w, action, RULE_PRIORITY_DEFAULT_NETWORK, t.table,
                            intValue(fwmark), intValue(mask), NULL,
                            INVALID_UID, INVALID_UID)
          : t \in {getRouteTableForInterface(w, interface)} })

modifyDefaultNetworkRules(w, interface, permission, action) ==
    LET fwmark == [Fwmark EXCEPT !.netId = 0, !.permission = permission]
        mask == [Fwmark EXCEPT !.netId = FWMARK_NET_ID_MASK, !.permission = permission]
    IN
    The({ IF t.table = 0 THEN Failed(t.w, -ESRCH)
          ELSE modifyIpRule(t.w, action, RULE_PRIORITY_DEFAULT_NETWORK, t.table,
                            intValue(fwmark), intValue(mask), NULL,
                            INVALID_UID, INVALID_UID)
          : t \in {getRouteTableForInterface(w, interface)} })

(***************************************************************************)
(* modifyRoute: adds or removes a route in the specified table and, if it  *)
(* is a directly-connected route, in the main table as well.               *)
(***************************************************************************)
\* Variants of modifyRoute that the properties of the route operations tell apart
\* from it.  The first returns -EEXIST like any other error.
modifyRoute_TolerateNone(w, interface, destination, nexthop, action, tableType) ==
    The({ IF t.table = 0 THEN Failed(t.w, -ESRCH) ELSE
    The({ IF r1.ret # 0 THEN r1
          ELSE IF nexthop # NULL THEN Failed(r1.w, 0)
          ELSE modifyIpRoute(r1.w, action, RT_TABLE_MAIN, interface, destination, NULL)
          : r1 \in {modifyIpRoute(t.w, action, t.table, interface, destination,
                                  nexthop)} })
          : t \in {IF tableType = "INTERFACE" THEN getRouteTableForInterface(w, interface)
                   ELSE IF tableType = "LEGACY" THEN [w |-> w, table |-> ROUTE_TABLE_LEGACY]
                   ELSE [w |-> w, table |-> ROUTE_TABLE_PRIVILEGED_LEGACY]} })

\* The second ignores -EEXIST on every route addition, whatever the table.
modifyRoute_TolerateAll(w, interface, destination, nexthop, action, tableType) ==
    The({ IF t.table = 0 THEN Failed(t.w, -ESRCH) ELSE
    The({ IF r1.ret # 0 /\ ~(action = "RTM_NEWROUTE" /\ r1.ret = -EEXIST)
          THEN r1
          ELSE IF nexthop # NULL THEN Failed(r1.w, 0)
          ELSE The({ IF r2.ret # 0 /\ ~(action = "RTM_NEWROUTE" /\ r2.ret = -EEXIST)
                     THEN r2
                     ELSE Failed(r2.w, 0)
                     : r2 \in {modifyIpRoute(r1.w, action, RT_TABLE_MAIN, interface,
                                             destination, NULL)} })
          : r1 \in {modifyIpRoute(t.w, action, t.table, interface, destination,
                                  nexthop)} })
          : t \in {IF tableType = "INTERFACE" THEN getRouteTableForInterface(w, interface)
                   ELSE IF tableType = "LEGACY" THEN [w |-> w, table |-> ROUTE_TABLE_LEGACY]
                   ELSE [w |-> w, table |-> ROUTE_TABLE_PRIVILEGED_LEGACY]} })

\* The third leaves the main table alone.
modifyRoute_NoMirror(w, interface, destination, nexthop, action, tableType) ==
    The({ IF t.table = 0 THEN Failed(t.w, -ESRCH) ELSE
    The({ IF r1.ret # 0 /\ ~(action = "RTM_NEWROUTE" /\ r1.ret = -EEXIST
                             /\ tableType \in {"LEGACY", "PRIVILEGED_LEGACY"})
          THEN r1
          ELSE Failed(r1.w, 0)
          : r1 \in {modifyIpRoute(t.w, action, t.table, interface, destination,
                                  nexthop)} })
          : t \in {IF tableType = "INTERFACE" THEN getRouteTableForInterface(w, interface)
                   ELSE IF tableType = "LEGACY" THEN [w |-> w, table |-> ROUTE_TABLE_LEGACY]
                   ELSE [w |-> w, table |-> ROUTE_TABLE_PRIVILEGED_LEGACY]} })

\* The fourth mirrors an added route into the main table and leaves the copy there
\* when the route is removed.
modifyRoute_KeepMain(w, interface, destination, nexthop, action, tableType) ==
    The({ IF t.table = 0 THEN Failed(t.w, -ESRCH) ELSE
    The({ IF r1.ret # 0 /\ ~(action = "RTM_NEWROUTE" /\ r1.ret = -EEXIST
                             /\ tableType \in {"LEGACY", "PRIVILEGED_LEGACY"})
          THEN r1
          ELSE IF nexthop # NULL \/ action # "RTM_NEWROUTE" THEN Failed(r1.w, 0)
          ELSE The({ IF r2.ret # 0 /\ ~(action = "RTM_NEWROUTE" /\ r2.ret = -EEXIST)
                     THEN r2
                     ELSE Failed(r2.w, 0)
                     : r2 \in {modifyIpRoute(r1.w, action, RT_TABLE_MAIN, interface,
                                             destination, NULL)} })
          : r1 \in {modifyIpRoute(t.w, action, t.table, interface, destination,
                                  nexthop)} })
          : t \in {IF tableType = "INTERFACE" THEN getRouteTableForInterface(w, interface)
                   ELSE IF tableType = "LEGACY" THEN [w |-> w, table |-> ROUTE_TABLE_LEGACY]
                   ELSE [w |-> w, table |-> ROUTE_TABLE_PRIVILEGED_LEGACY]} })

modifyRoute(w, interface, destination, nexthop, action, tableType) ==
    The({ IF t.table = 0 THEN Failed(t.w, -ESRCH) ELSE
    The({ \* ignore EEXIST failures when adding routes to legacy tables
          IF r1.ret # 0 /\ ~(action = "RTM_NEWROUTE" /\ r1.ret = -EEXIST
                             /\ tableType \in {"LEGACY", "PRIVILEGED_LEGACY"})
          THEN r1
          \* If there's no nexthop, this is a directly connected route. Add it to the
          \* main table also.
          ELSE IF nexthop # NULL THEN Failed(r1.w, 0)
          ELSE The({ IF r2.ret # 0 /\ ~(action = "RTM_NEWROUTE" /\ r2.ret = -EEXIST)
                     THEN r2
                     ELSE Failed(r2.w, 0)
                     : r2 \in {modifyIpRoute(r1.w, action, RT_TABLE_MAIN, interface,
                                             destination, NULL)} })
          : r1 \in {modifyIpRoute(t.w, action, t.table, interface, destination,
                                  nexthop)} })
          : t \in {IF tableType = "INTERFACE" THEN getRouteTableForInterface(w, interface)
                   ELSE IF tableType = "LEGACY" THEN [w |-> w, table |-> ROUTE_TABLE_LEGACY]
                   ELSE [w |-> w, table |-> ROUTE_TABLE_PRIVILEGED_LEGACY]} })

(***************************************************************************)
(* flushRoutes.  The argument vector is the one the source builds: the     *)
(* adjacent literals "route" "flush" are one string.                       *)
(***************************************************************************)
flushRoutes(w, interface) ==
    The({ IF t.table = 0 THEN Failed(t.w, -ESRCH) ELSE
    The({ IF r1.ret # 0 THEN Failed(r1.w, -EREMOTEIO) ELSE
    The({ IF r2.ret # 0 THEN Failed(r2.w, -EREMOTEIO) ELSE Failed(r2.w, 0)
          : r2 \in {android_fork_execvp(r1.w, <<IP_PATH, IP_VERSIONS[2], "route" \o "flush",
                                                "table", DecString(t.table)>>)} })
          : r1 \in {android_fork_execvp(
                        [t.w EXCEPT !.cache = MapErase(@, interface),
                                    !.log = Append(@, [ev |-> "erase", name |-> interface,
                                                       index |-> 0, table |-> t.table])],
                        <<IP_PATH, IP_VERSIONS[1], "route" \o "flush",
                          "table", DecString(t.table)>>)} })
          : t \in {getRouteTableForInterface(w, interface)} })

(***************************************************************************)
(* The public operations of RouteController.                               *)
(***************************************************************************)
\* A variant of Init that goes on to install the rule the source keeps disabled (at
\* priority 21000, unreachable, no table, no mark), which the property of Init
\* tells apart from it.
RouteController_Init_Unreachable(w) ==
    LET fwmark1 == [Fwmark EXCEPT !.netId = 0]
        mask1 == [Fwmark EXCEPT !.netId = FWMARK_NET_ID_MASK]
        fwmark2 == [fwmark1 EXCEPT !.netId = 0, !.explicitlySelected = FALSE]
        mask2 == [mask1 EXCEPT !.netId = 0, !.explicitlySelected = TRUE]
        fwmark3 == [fwmark2 EXCEPT !.permission = PERMISSION_CONNECTIVITY_INTERNAL]
        mask3 == [mask2 EXCEPT !.permission = PERMISSION_CONNECTIVITY_INTERNAL]
    IN
    The({ IF r1.ret # 0 THEN r1 ELSE
    The({ IF r2.ret # 0 THEN r2 ELSE
    The({ IF r3.ret # 0 THEN r3
          ELSE modifyIpRule(r3.w, "RTM_NEWRULE", 21000, 0, 0, 0, NULL,
                            INVALID_UID, INVALID_UID)
          : r3 \in {modifyIpRule(r2.w, "RTM_NEWRULE", RULE_PRIORITY_PRIVILEGED_LEGACY,
                                 ROUTE_TABLE_PRIVILEGED_LEGACY, intValue(fwmark3),
                                 intValue(mask3), NULL, INVALID_UID, INVALID_UID)} })
          : r2 \in {modifyIpRule(r1.w, "RTM_NEWRULE", RULE_PRIORITY_LEGACY,
                                 ROUTE_TABLE_LEGACY, intValue(fwmark2), intValue(mask2),
                                 NULL, INVALID_UID, INVALID_UID)} })
          : r1 \in {modifyIpRule(w, "RTM_NEWRULE", RULE_PRIORITY_MAIN, RT_TABLE_MAIN,
                                 intValue(fwmark1), intValue(mask1), NULL,
                                 INVALID_UID, INVALID_UID)} })

RouteController_Init(w) ==
    LET \* the rule to look up the main table
        fwmark1 == [Fwmark EXCEPT !.netId = 0]
        mask1 == [Fwmark EXCEPT !.netId = FWMARK_NET_ID_MASK]
        \* the rules to allow lookup of legacy routes
        fwmark2 == [fwmark1 EXCEPT !.netId = 0, !.explicitlySelected = FALSE]
        mask2 == [mask1 EXCEPT !.netId = 0, !.explicitlySelected = TRUE]
        fwmark3 == [fwmark2 EXCEPT !.permission = PERMISSION_CONNECTIVITY_INTERNAL]
        mask3 == [mask2 EXCEPT !.permission = PERMISSION_CONNECTIVITY_INTERNAL]
    IN
    The({ IF r1.ret # 0 THEN r1 ELSE
    The({ IF r2.ret # 0 THEN r2
          ELSE modifyIpRule(r2.w, "RTM_NEWRULE", RULE_PRIORITY_PRIVILEGED_LEGACY,
                            ROUTE_TABLE_PRIVILEGED_LEGACY, intValue(fwmark3),
                            intValue(mask3), NULL, INVALID_UID, INVALID_UID)
          : r2 \in {modifyIpRule(r1.w, "RTM_NEWRULE", RULE_PRIORITY_LEGACY,
                                 ROUTE_TABLE_LEGACY, intValue(fwmark2), intValue(mask2),
                                 NULL, INVALID_UID, INVALID_UID)} })
          : r1 \in {modifyIpRule(w, "RTM_NEWRULE", RULE_PRIORITY_MAIN, RT_TABLE_MAIN,
                                 intValue(fwmark1), intValue(mask1), NULL,
                                 INVALID_UID, INVALID_UID)} })

addInterfaceToNetwork(w, netId, interface, permission) ==
    modifyPerNetworkRules(w, netId, interface, permission, TRUE, TRUE)

removeInterfaceFromNetwork(w, netId, interface, permission) ==
    The({ IF r.ret # 0 THEN r ELSE flushRoutes(r.w, interface)
          : r \in {modifyPerNetworkRules(w, netId, interface, permission, FALSE, TRUE)} })

addInterfaceToVpn(w, netId, interface) ==
    The({ IF r.ret # 0 THEN r ELSE modifyVpnRules(r.w, netId, interface, "RTM_NEWRULE")
          : r \in {modifyPerNetworkRules(w, netId, interface, PERMISSION_NONE, TRUE,
                                         TRUE)} })

removeInterfaceFromVpn(w, netId, interface) ==
    The({ IF r1.ret # 0 THEN r1 ELSE
    The({ IF r2.ret # 0 THEN r2 ELSE flushRoutes(r2.w, interface)
          : r2 \in {modifyVpnRules(r1.w, netId, interface, "RTM_DELRULE")} })
          : r1 \in {modifyPerNetworkRules(w, netId, interface, PERMISSION_NONE, FALSE,
                                          TRUE)} })

\* A variant that deletes the old rules before it adds the new ones, which the
\* ordering property tells apart from the operation.
modifyNetworkPermission_DeleteFirst(w, netId, interface, oldPermission, newPermission) ==
    The({ IF r.ret # 0 THEN r
          ELSE modifyPerNetworkRules(r.w, netId, interface, newPermission, TRUE, FALSE)
          : r \in {modifyPerNetworkRules(w, netId, interface, oldPermission, FALSE,
                                         FALSE)} })

modifyNetworkPermission(w, netId, interface, oldPermission, newPermission) ==
    \* Add the new rules before deleting the old ones, to avoid race conditions.
    The({ IF r.ret # 0 THEN r
          ELSE modifyPerNetworkRules(r.w, netId, interface, oldPermission, FALSE, FALSE)
          : r \in {modifyPerNetworkRules(w, netId, interface, newPermission, TRUE,
                                         FALSE)} })

addToDefaultNetwork(w, interface, permission) ==
    modifyDefaultNetworkRules(w, interface, permission, "RTM_NEWRULE")

removeFromDefaultNetwork(w, interface, permission) ==
    modifyDefaultNetworkRules(w, interface, permission, "RTM_DELRULE")

addRoute(w, interface, destination, nexthop, tableType) ==
    modifyRoute(w, interface, destination, nexthop, "RTM_NEWROUTE", tableType)

removeRoute(w, interface, destination, nexthop, tableType) ==
    modifyRoute(w, interface, destination, nexthop, "RTM_DELROUTE", tableType)

(***************************************************************************)
(* The state machine.                                                      *)
(***************************************************************************)
Destinations == {"10.0.0.0/24", "2001:db8::/64"}
Nexthops == {NULL, "10.0.0.1"}
TableTypes == {"INTERFACE", "LEGACY", "PRIVILEGED_LEGACY"}

NoArgs == [netId |-> 0, interface |-> NULL, permission |-> 0, oldPermission |-> 0,
           destination |-> NULL, nexthop |-> NULL, tableType |-> "",
           priority |-> 0, table |-> 0, fwmark |-> 0, mask |-> 0,
           uidStart |-> 0, uidEnd |-> 0, action |-> "", family |-> ""]

Snapshot == [rules |-> ipRules, routes |-> ipRoutes, ipt |-> iptables,
             cache |-> interfaceToIndex, ifx |-> ifindex,
             live |-> lastLive, flushed |-> flushedSince]

Idle == [op |-> "none", args |-> NoArgs, ret |-> 0, trace |-> <<>>, log |-> <<>>,
         fault |-> NoFault]

NoCall == [op |-> "none", args |-> NoArgs, ret |-> 0, partial |-> FALSE]

\* what a call finds: the state, and the call made just before it (partial: that
\* call had at least one request or invocation succeed)
Before ==
    Snapshot @@ [call |-> [op |-> last.op, args |-> last.args, ret |-> last.ret,
                           partial |-> \E k \in 1..Len(last.trace) :
                                           last.trace[k].res = 0]]

\* the faults a call can meet when, left alone, it sends n requests
FaultsWithin(n) ==
    {NoFault} \cup (IF faultsDone < MaxFaults THEN [at : 1..n, err : FaultErrs, stage : {"socket"}] ELSE {})

\* the history of lookups, advanced over the log of one operation
RECURSIVE LiveAfter(_, _)
LiveAfter(live, log) ==
    IF log = <<>> THEN live
    ELSE LiveAfter(IF log[1].ev = "resolve" /\ log[1].index # 0
                   THEN [live EXCEPT ![log[1].name] = log[1].table] ELSE live,
                   Tail(log))

RECURSIVE FlushedAfter(_, _)
FlushedAfter(fl, log) ==
    IF log = <<>> THEN fl
    ELSE FlushedAfter(IF log[1].ev = "resolve" /\ log[1].index # 0
                      THEN [fl EXCEPT ![log[1].name] = FALSE]
                      ELSE IF log[1].ev = "erase" THEN [fl EXCEPT ![log[1].name] = TRUE]
                      ELSE fl,
                      Tail(log))

\* an operation ran from World(f) and returned res = [w, ret]
Returns(op, args, f, res) ==
    /\ opsLeft' = opsLeft - 1
    /\ faultsDone' = IF f = NoFault THEN faultsDone ELSE faultsDone + 1
    /\ ipRules' = res.w.rules
    /\ ipRoutes' = res.w.routes
    /\ iptables' = res.w.ipt
    /\ interfaceToIndex' = res.w.cache
    /\ last' = [op |-> op, args |-> args, ret |-> res.ret, trace |-> res.w.trace,
                log |-> res.w.log, fault |-> f, before |-> Before]
    /\ lastLive' = LiveAfter(lastLive, res.w.log)
    /\ flushedSince' = FlushedAfter(flushedSince, res.w.log)
    /\ UNCHANGED <<ifindex, ifEvents>>

CallInit ==
    /\ opsLeft > 0
    /\ \E r0 \in {RouteController_Init(World(NoFault))} :
          \E f \in FaultsWithin(Len(r0.w.trace)) :
          \E res \in {IF f = NoFault THEN r0 ELSE RouteController_Init(World(f))} :
              Returns("Init", NoArgs, f, res)

CallAddInterfaceToNetwork ==
    /\ opsLeft > 0
    /\ \E n \in NetIds, i \in Interfaces, p \in Permissions :
          \E r0 \in {addInterfaceToNetwork(World(NoFault), n, i, p)} :
          \E f \in FaultsWithin(Len(r0.w.trace)) :
          \E res \in {IF f = NoFault THEN r0 ELSE addInterfaceToNetwork(World(f), n, i, p)} :
              Returns("addInterfaceToNetwork",
                      [NoArgs EXCEPT !.netId = n, !.interface = i, !.permission = p], f, res)

CallRemoveInterfaceFromNetwork ==
    /\ opsLeft > 0
    /\ \E n \in NetIds, i \in Interfaces, p \in Permissions :
          \E r0 \in {removeInterfaceFromNetwork(World(NoFault), n, i, p)} :
          \E f \in FaultsWithin(Len(r0.w.trace)) :
          \E res \in {IF f = NoFault THEN r0
                      ELSE removeInterfaceFromNetwork(World(f), n, i, p)} :
              Returns("removeInterfaceFromNetwork",
                      [NoArgs EXCEPT !.netId = n, !.interface = i, !.permission = p], f, res)

CallAddInterfaceToVpn ==
    /\ opsLeft > 0
    /\ \E n \in NetIds, i \in Interfaces :
          \E r0 \in {addInterfaceToVpn(World(NoFault), n, i)} :
          \E f \in FaultsWithin(Len(r0.w.trace)) :
          \E res \in {IF f = NoFault THEN r0 ELSE addInterfaceToVpn(World(f), n, i)} :
              Returns("addInterfaceToVpn",
                      [NoArgs EXCEPT !.netId = n, !.interface = i], f, res)

CallRemoveInterfaceFromVpn ==
    /\ opsLeft > 0
    /\ \E n \in NetIds, i \in Interfaces :
          \E r0 \in {removeInterfaceFromVpn(World(NoFault), n, i)} :
          \E f \in FaultsWithin(Len(r0.w.trace)) :
          \E res \in {IF f = NoFault THEN r0 ELSE removeInterfaceFromVpn(World(f), n, i)} :
              Returns("removeInterfaceFromVpn",
                      [NoArgs EXCEPT !.netId = n, !.interface = i], f, res)

CallModifyNetworkPermission ==
    /\ opsLeft > 0
    /\ \E n \in NetIds, i \in Interfaces, o \in Permissions, p \in Permissions :
          \E r0 \in {modifyNetworkPermission(World(NoFault), n, i, o, p)} :
          \E f \in FaultsWithin(Len(r0.w.trace)) :
          \E res \in {IF f = NoFault THEN r0
                      ELSE modifyNetworkPermission(World(f), n, i, o, p)} :
              Returns("modifyNetworkPermission",
                      [NoArgs EXCEPT !.netId = n, !.interface = i, !.oldPermission = o,
                                     !.permission = p], f, res)

CallAddToDefaultNetwork ==
    /\ opsLeft > 0
    /\ \E i \in Interfaces, p \in Permissions :
          \E r0 \in {addToDefaultNetwork(World(NoFault), i, p)} :
          \E f \in FaultsWithin(Len(r0.w.trace)) :
          \E res \in {IF f = NoFault THEN r0 ELSE addToDefaultNetwork(World(f), i, p)} :
              Returns("addToDefaultNetwork",
                      [NoArgs EXCEPT !.interface = i, !.permission = p], f, res)

CallRemoveFromDefaultNetwork ==
    /\ opsLeft > 0
    /\ \E i \in Interfaces, p \in Permissions :
          \E r0 \in {removeFromDefaultNetwork(World(NoFault), i, p)} :
          \E f \in FaultsWithin(Len(r0.w.trace)) :
          \E res \in {IF f = NoFault THEN r0 ELSE removeFromDefaultNetwork(World(f), i, p)} :
              Returns("removeFromDefaultNetwork",
                      [NoArgs EXCEPT !.interface = i, !.permission = p], f, res)

CallAddRoute ==
    /\ opsLeft > 0
    /\ \E i \in Interfaces, d \in Destinations, g \in Nexthops, t \in TableTypes :
          \E r0 \in {addRoute(World(NoFault), i, d, g, t)} :
          \E f \in FaultsWithin(Len(r0.w.trace)) :
          \E res \in {IF f = NoFault THEN r0 ELSE addRoute(World(f), i, d, g, t)} :
              Returns("addRoute",
                      [NoArgs EXCEPT !.interface = i, !.destination = d, !.nexthop = g,
                                     !.tableType = t], f, res)

CallRemoveRoute ==
    /\ opsLeft > 0
    /\ \E i \in Interfaces, d \in Destinations, g \in Nexthops, t \in TableTypes :
          \E r0 \in {removeRoute(World(NoFault), i, d, g, t)} :
          \E f \in FaultsWithin(Len(r0.w.trace)) :
          \E res \in {IF f = NoFault THEN r0 ELSE removeRoute(World(f), i, d, g, t)} :
              Returns("removeRoute",
                      [NoArgs EXCEPT !.interface = i, !.destination = d, !.nexthop = g,
                                     !.tableType = t], f, res)

\* the environment: an interface appears, with an index no other interface has
InterfaceUp ==
    \E i \in Interfaces, x \in 1..MaxIfIndex :
        /\ ifEvents < MaxIfEvents
        /\ ifindex[i] = 0
        /\ \A j \in Interfaces : ifindex[j] # x
        /\ ifindex' = [ifindex EXCEPT ![i] = x]
        /\ ifEvents' = ifEvents + 1
        /\ last' = [Idle EXCEPT !.op = "InterfaceUp"] @@ [before |-> Before]
        /\ UNCHANGED <<ipRules, ipRoutes, iptables, interfaceToIndex, lastLive,
                       flushedSince, opsLeft, faultsDone>>

\* the environment: an interface disappears; the kernel drops the routes through it
InterfaceDown ==
    \E i \in Interfaces :
        /\ ifEvents < MaxIfEvents
        /\ ifindex[i] # 0
        /\ ifindex' = [ifindex EXCEPT ![i] = 0]
        /\ ipRoutes' = {r \in ipRoutes : r.oif # ifindex[i]}
        /\ ifEvents' = ifEvents + 1
        /\ last' = [Idle EXCEPT !.op = "InterfaceDown"] @@ [before |-> Before]
        /\ UNCHANGED <<ipRules, iptables, interfaceToIndex, lastLive, flushedSince,
                       opsLeft, faultsDone>>

Start(calls) ==
    /\ ifindex \in [Interfaces -> 0..MaxIfIndex]
    /\ \A i, j \in Interfaces : i # j /\ ifindex[i] # 0 => ifindex[i] # ifindex[j]
    /\ ipRules = [f \in Families |-> {}]
    /\ ipRoutes = {}
    /\ iptables = <<>>
    /\ interfaceToIndex = <<>>
    /\ lastLive = [i \in Interfaces |-> 0]
    /\ flushedSince = [i \in Interfaces |-> FALSE]
    /\ opsLeft = calls
    /\ faultsDone = 0
    /\ ifEvents = 0
    /\ last = Idle @@ [before |-> Snapshot @@ [call |-> NoCall]]

Init == Start(MaxOps)

Next ==
    \/ CallInit
    \/ CallAddInterfaceToNetwork
    \/ CallRemoveInterfaceFromNetwork
    \/ CallAddInterfaceToVpn
    \/ CallRemoveInterfaceFromVpn
    \/ CallModifyNetworkPermission
    \/ CallAddToDefaultNetwork
    \/ CallRemoveFromDefaultNetwork
    \/ CallAddRoute
    \/ CallRemoveRoute
    \/ InterfaceUp
    \/ InterfaceDown

Spec == Init /\ [][Next]_vars

\* the network operations alone, one call deeper
InitNet == Start(MaxNetOps)

NextNet ==
    \/ CallAddInterfaceToNetwork
    \/ CallRemoveInterfaceFromNetwork
    \/ CallModifyNetworkPermission
    \/ InterfaceUp
    \/ InterfaceDown

SpecNet == InitNet /\ [][NextNet]_vars

\* the operations that look an interface up or forget it, to the same depth
NextCache ==
    \/ CallAddInterfaceToNetwork
    \/ CallRemoveInterfaceFromNetwork
    \/ CallAddRoute
    \/ CallRemoveRoute
    \/ InterfaceUp
    \/ InterfaceDown

SpecCache == InitNet /\ [][NextCache]_vars

(***************************************************************************)
(* The rule encoder alone: a call of modifyIpRule with arguments drawn     *)
(* from RuleArgs, on a kernel that holds the rule of the call in neither,  *)
(* one or both families (it holds it only if an earlier call with these    *)
(* arguments could install it).                                            *)
(***************************************************************************)
Marks == {0, 5, 65541}
Uids == {INVALID_UID, 1000}
\* a name of 15 characters: with its terminator it just fits IFNAMSIZ
FullInterface == "wlan0123456789a"

RuleArgs ==
    {[NoArgs EXCEPT !.action = a, !.priority = p,
                    !.table = t, !.fwmark = m, !.mask = k, !.interface = i,
                    !.uidStart = u, !.uidEnd = v] :
        a \in {"RTM_NEWRULE", "RTM_DELRULE"},
        p \in {RULE_PRIORITY_DEFAULT_NETWORK, RULE_PRIORITY_MAIN},
        t \in {0, 1 + ROUTE_TABLE_OFFSET_FROM_INDEX},
        m \in Marks, k \in Marks,
        i \in {NULL, "wlan0", FullInterface, LongInterface},
        u \in Uids, v \in Uids}

RuleOf(a) ==
    RuleRequest(a.action, AF_FAMILIES[1], a.priority, a.table, a.fwmark, a.mask,
                a.interface, a.uidStart, a.uidEnd).body

Installable(a) ==
    /\ AndNot(a.fwmark, a.mask) = 0
    /\ a.interface # NULL => strlcpy(a.interface) + 1 <= IFNAMSIZ
    /\ (a.uidStart = INVALID_UID) = (a.uidEnd = INVALID_UID)

InitRule ==
    /\ ifindex = [i \in Interfaces |-> 1]
    /\ ipRoutes = {}
    /\ iptables = <<>>
    /\ interfaceToIndex = <<>>
    /\ lastLive = [i \in Interfaces |-> 0]
    /\ flushedSince = [i \in Interfaces |-> FALSE]
    /\ opsLeft = 1
    /\ faultsDone = 0
    /\ ifEvents = 0
    /\ \E a \in RuleArgs, k \in 0..2, held \in SUBSET Families :
        /\ held # {} => Installable(a)
        /\ ipRules = [f \in Families |-> IF f \in held THEN {RuleOf(a)} ELSE {}]
        /\ last = [Idle EXCEPT !.op = "call modifyIpRule", !.args = a,
                               !.fault = IF k = 0 THEN NoFault
                                         ELSE [at |-> k, err |-> -ENOMEM, stage |-> "socket"]]
                  @@ [before |-> [rules |-> ipRules, routes |-> {}, ipt |-> <<>>,
                                  cache |-> <<>>, ifx |-> ifindex,
                                  live |-> lastLive, flushed |-> flushedSince]]

CallModifyIpRule ==
    /\ opsLeft > 0
    /\ last.op = "call modifyIpRule"
    /\ \E res \in {modifyIpRule(World(last.fault), last.args.action, last.args.priority,
                                last.args.table, last.args.fwmark, last.args.mask,
                                last.args.interface, last.args.uidStart,
                                last.args.uidEnd)} :
           Returns("modifyIpRule", last.args, last.fault, res)

SpecRule == InitRule /\ [][CallModifyIpRule]_vars

(***************************************************************************)
(* The transport alone: one call of sendNetlinkRequest with a rule request *)
(* for one family, on a kernel that holds the rule or not, with each of    *)
(* the ways the exchange can fail.                                         *)
(***************************************************************************)
SendStages == {"socket", "connect", "writev", "recv", "size"}

SendArgs ==
    {[a EXCEPT !.family = f] : a \in {x \in RuleArgs : Installable(x)}, f \in Families}

SendRequest(a) ==
    RuleRequest(a.action, a.family, a.priority, a.table, a.fwmark, a.mask,
                a.interface, a.uidStart, a.uidEnd)

InitSend ==
    /\ ifindex = [i \in Interfaces |-> 1]
    /\ ipRoutes = {}
    /\ iptables = <<>>
    /\ interfaceToIndex = <<>>
    /\ lastLive = [i \in Interfaces |-> 0]
    /\ flushedSince = [i \in Interfaces |-> FALSE]
    /\ opsLeft = 1
    /\ faultsDone = 0
    /\ ifEvents = 0
    /\ \E a \in SendArgs, held \in BOOLEAN,
          f \in {NoFault} \cup [at : {1}, err : FaultErrs, stage : SendStages] :
        /\ ipRules = [g \in Families |-> IF held /\ g = a.family THEN {RuleOf(a)}
                                         ELSE {}]
        /\ last = [Idle EXCEPT !.op = "call sendNetlinkRequest", !.args = a,
                               !.fault = f]
                  @@ [before |-> Snapshot @@ [call |-> NoCall]]

CallSendNetlinkRequest ==
    /\ opsLeft > 0
    /\ last.op = "call sendNetlinkRequest"
    /\ \E res \in {sendNetlinkRequest(World(last.fault), SendRequest(last.args))} :
           Returns("sendNetlinkRequest", last.args, last.fault, res)

SpecSend == InitSend /\ [][CallSendNetlinkRequest]_vars

(***************************************************************************)
(* The rule builders alone: one call of an operation that builds rules,    *)
(* for each netId and permission, on a kernel in which the call can run    *)
(* to its last rule: empty before an add, holding the rules that the call  *)
(* deletes before a remove or a permission change.                         *)
(***************************************************************************)
AllPermissions == {PERMISSION_NONE, PERMISSION_CHANGE_NETWORK_STATE,
                   PERMISSION_CONNECTIVITY_INTERNAL}

\* netIds at the ends of the 16-bit field and beyond it
AllNetIds == {0, 5, 65535, 65541}

MarkCalls ==
    {[op |-> "Init", args |-> NoArgs]}
    \cup {[op |-> o, args |-> [NoArgs EXCEPT !.netId = n, !.interface = i,
                                             !.permission = p]] :
             o \in {"addInterfaceToNetwork", "removeInterfaceFromNetwork"},
             n \in AllNetIds, i \in Interfaces, p \in AllPermissions}
    \cup {[op |-> o, args |-> [NoArgs EXCEPT !.netId = n, !.interface = i]] :
             o \in {"addInterfaceToVpn", "removeInterfaceFromVpn"},
             n \in AllNetIds, i \in Interfaces}
    \cup {[op |-> "modifyNetworkPermission",
           args |-> [NoArgs EXCEPT !.netId = n, !.interface = i, !.oldPermission = q,
                                   !.permission = p]] :
             n \in AllNetIds, i \in Interfaces, q \in AllPermissions,
             p \in AllPermissions}
    \cup {[op |-> o, args |-> [NoArgs EXCEPT !.interface = i, !.permission = p]] :
             o \in {"addToDefaultNetwork", "removeFromDefaultNetwork"},
             i \in Interfaces, p \in AllPermissions}

\* a world with the given interfaces and nothing installed
Bare(ifx) ==
    [ifx |-> ifx, rules |-> [f \in Families |-> {}], routes |-> {}, ipt |-> <<>>,
     cache |-> <<>>, trace |-> <<>>, log |-> <<>>, fault |-> NoFault]

\* the operation of the call, run in the world
Run(c, w) ==
    CASE c.op = "Init" -> RouteController_Init(w)
      [] c.op = "addInterfaceToNetwork" ->
             addInterfaceToNetwork(w, c.args.netId, c.args.interface, c.args.permission)
      [] c.op = "removeInterfaceFromNetwork" ->
             removeInterfaceFromNetwork(w, c.args.netId, c.args.interface,
                                        c.args.permission)
      [] c.op = "addInterfaceToVpn" ->
             addInterfaceToVpn(w, c.args.netId, c.args.interface)
      [] c.op = "removeInterfaceFromVpn" ->
             removeInterfaceFromVpn(w, c.args.netId, c.args.interface)
      [] c.op = "modifyNetworkPermission" ->
             modifyNetworkPermission(w, c.args.netId, c.args.interface,
                                     c.args.oldPermission, c.args.permission)
      [] c.op = "addToDefaultNetwork" ->
             addToDefaultNetwork(w, c.args.interface, c.args.permission)
      [] c.op = "removeFromDefaultNetwork" ->
             removeFromDefaultNetwork(w, c.args.interface, c.args.permission)

\* the call that installs what the call deletes; none for an add
Installer(c) ==
    CASE c.op = "removeInterfaceFromNetwork" -> [c EXCEPT !.op = "addInterfaceToNetwork"]
      [] c.op = "removeInterfaceFromVpn" -> [c EXCEPT !.op = "addInterfaceToVpn"]
      [] c.op = "removeFromDefaultNetwork" -> [c EXCEPT !.op = "addToDefaultNetwork"]
      [] c.op = "modifyNetworkPermission"
         /\ c.args.oldPermission # c.args.permission ->
             [op |-> "addInterfaceToNetwork",
              args |-> [c.args EXCEPT !.permission = c.args.oldPermission]]
      [] OTHER -> [op |-> "none", args |-> NoArgs]

InitMark ==
    /\ ifindex \in [Interfaces -> 1..MaxIfIndex]
    /\ ipRoutes = {}
    /\ opsLeft = 1
    /\ faultsDone = 0
    /\ ifEvents = 0
    /\ \E c \in MarkCalls :
        \E pre \in {IF Installer(c).op = "none" THEN Bare(ifindex)
                     ELSE Run(Installer(c), Bare(ifindex)).w} :
            /\ ipRules = pre.rules
            /\ iptables = pre.ipt
            /\ interfaceToIndex = pre.cache
            /\ lastLive = LiveAfter([i \in Interfaces |-> 0], pre.log)
            /\ flushedSince = FlushedAfter([i \in Interfaces |-> FALSE], pre.log)
            /\ last = [Idle EXCEPT !.op = "call " \o c.op, !.args = c.args]
                      @@ [before |-> Snapshot @@ [call |-> NoCall]]

CallBuildRules ==
    /\ opsLeft > 0
    /\ \E c \in {x \in MarkCalls : last.op = "call " \o x.op /\ last.args = x.args} :
       \E res \in {Run(c, World(NoFault))} :
           Returns(c.op, c.args, NoFault, res)

SpecMark == InitMark /\ [][CallBuildRules]_vars

(***************************************************************************)
(* Properties.  They are stated over the call that just returned (last):   *)
(* its arguments, its result, the requests it sent with their answers, and *)
(* the state it started from.                                              *)
(***************************************************************************)
CallOf(op) == last.op = op

\* the mark sets a bit the mask does not select
MarkOutsideMask(a) == BitAnd(a.fwmark, a.mask) # a.fwmark
\* the name with its terminator does not fit IFNAMSIZ
NameTooLong(a) == a.interface # NULL /\ Len(a.interface) + 1 > IFNAMSIZ
\* one end of the UID range is given and the other is not
UidsUnpaired(a) == (a.uidStart = INVALID_UID) # (a.uidEnd = INVALID_UID)

\* C1: modifyIpRule called with a mark that has a bit outside the mask returns
\* -ERANGE, whatever the other arguments are, sends no request for either family
\* and leaves the kernel's rules as they were.
C1_MarkOutsideMaskRejected ==
    CallOf("modifyIpRule") /\ MarkOutsideMask(last.args)
        => /\ last.ret = -ERANGE
           /\ last.trace = <<>>
           /\ ipRules = last.before.rules

C1_Witness ==
    /\ CallOf("modifyIpRule")
    /\ last.args.fwmark = 65541 /\ last.args.mask = 5
    /\ last.args.interface = "wlan0"
    /\ last.args.action = "RTM_NEWRULE"
    /\ last.ret = -ERANGE

\* C2: modifyIpRule called with an interface name that, with its terminator, is
\* longer than IFNAMSIZ sends no request and returns -ENAMETOOLONG; the checks run
\* in the order mark and mask, name length, UID pairing, and the first that fails
\* decides the result.
C2_NameTooLongRejectedInOrder ==
    CallOf("modifyIpRule") =>
        /\ NameTooLong(last.args) =>
              /\ last.trace = <<>>
              /\ ipRules = last.before.rules
              /\ last.ret = IF MarkOutsideMask(last.args) THEN -ERANGE ELSE -ENAMETOOLONG
        /\ UidsUnpaired(last.args) =>
              /\ last.trace = <<>>
              /\ last.ret = IF MarkOutsideMask(last.args) THEN -ERANGE
                            ELSE IF NameTooLong(last.args) THEN -ENAMETOOLONG
                            ELSE -EUSERS
        /\ last.ret \in {-ERANGE, -ENAMETOOLONG, -EUSERS} =>
              \/ MarkOutsideMask(last.args)
              \/ NameTooLong(last.args)
              \/ UidsUnpaired(last.args)

C2_Witness ==
    /\ CallOf("modifyIpRule")
    /\ last.args.interface = LongInterface
    /\ ~MarkOutsideMask(last.args)
    /\ UidsUnpaired(last.args)
    /\ last.ret = -ENAMETOOLONG
    /\ last.trace = <<>>

\* the table the last lookup of the name returned while the interface existed (0 if
\* there was none), and whether flushRoutes erased the name since, as they stand
\* just before the k-th lookup or erasure of the call
LiveBefore(k) == LiveAfter(last.before.live, SubSeq(last.log, 1, k - 1))
FlushedBefore(k) == FlushedAfter(last.before.flushed, SubSeq(last.log, 1, k - 1))

\* the k-th entry of the log is a lookup of an interface that is gone and that an
\* earlier lookup found
LookupOfGone(k) ==
    /\ last.log[k].ev = "resolve"
    /\ ifindex[last.log[k].name] = 0
    /\ LiveBefore(k)[last.log[k].name] # 0

Adds == {k \in 1..Len(last.trace) : last.trace[k].action = "RTM_NEWRULE"}
Dels == {k \in 1..Len(last.trace) : last.trace[k].action = "RTM_DELRULE"}

\* every addition comes before every deletion, and deletions start only after the
\* three rules were added in both families
AddsBeforeDeletes ==
    /\ \A a \in Adds, d \in Dels : a < d
    /\ Dels # {} => Cardinality(Adds) = 3 * Len(AF_FAMILIES)
                    /\ \A a \in Adds : last.trace[a].res = 0

RemovalFailed == \E d \in Dels : last.trace[d].res # 0

\* the rules the call added are installed
AddedRulesInstalled ==
    /\ Cardinality(Adds) = 3 * Len(AF_FAMILIES)
    /\ \A a \in Adds : last.trace[a].body \in ipRules[last.trace[a].family]

\* C5, as stated: modifyNetworkPermission sends every addition of the new rules
\* before the first deletion of the old ones, and when a deletion fails its error is
\* returned and the three new rules are installed in both families.
C5_AddBeforeDeleteNewRulesStay ==
    CallOf("modifyNetworkPermission") =>
        /\ AddsBeforeDeletes
        /\ RemovalFailed => /\ last.ret = last.trace[Len(last.trace)].res
                            /\ AddedRulesInstalled

\* C5, amended: the same, the new rules being guaranteed to stay only when the old
\* permission differs from the new one (with equal permissions the deletions remove
\* the rules that were just added, and a failure after the first deletion leaves
\* some of them removed).
C5_AddBeforeDeleteNewRulesStayIfDistinct ==
    CallOf("modifyNetworkPermission") =>
        /\ AddsBeforeDeletes
        /\ RemovalFailed => /\ last.ret = last.trace[Len(last.trace)].res
                            /\ last.ret # 0
                            /\ (last.args.oldPermission # last.args.permission
                                    => AddedRulesInstalled)

C5_Witness ==
    /\ CallOf("modifyNetworkPermission")
    /\ last.args.oldPermission # last.args.permission
    /\ RemovalFailed
    /\ Cardinality(Dels) > 2
    /\ last.ret = -ENOMEM
    /\ AddedRulesInstalled

LegacyTables == {"LEGACY", "PRIVILEGED_LEGACY"}

\* C6: addRoute to a legacy table called twice in a row with the same arguments
\* returns 0 both times, and the second call leaves the routes as they are.
C6_LegacyAddTwice ==
    [][(/\ CallOf("addRoute") /\ last.ret = 0
        /\ last.args.tableType \in LegacyTables
        /\ last'.op = "addRoute"
        /\ last'.args = last.args
        /\ last'.fault = NoFault)
       => (last'.ret = 0 /\ ipRoutes' = ipRoutes)]_vars

C6_Witness ==
    /\ CallOf("addRoute") /\ last.ret = 0
    /\ last.args.tableType = "LEGACY"
    /\ last.args.nexthop = NULL
    /\ last.fault = NoFault
    /\ Len(last.trace) = 2
    /\ last.trace[1].res = -EEXIST /\ last.trace[1].body \in last.before.routes
    /\ last.trace[2].res = -EEXIST /\ last.trace[2].body \in last.before.routes
    /\ ipRoutes = last.before.routes

\* the kernel holds a route to the destination in the table
RouteIn(table, destination) ==
    \E r \in ipRoutes : r.table = table /\ r.dst = destination

\* C7: when addRoute without a nexthop returns 0, the kernel holds a route to the
\* destination in the table the call resolved (the interface's table for INTERFACE)
\* and in the main table; -EEXIST from the addition to the main table does not make
\* the call fail.
C7_DirectRouteInBothTables ==
    CallOf("addRoute") /\ last.args.nexthop = NULL =>
        /\ last.ret = 0 =>
              /\ Len(last.trace) = 2
              /\ RouteIn(last.trace[1].body.table, last.args.destination)
              /\ last.args.tableType = "INTERFACE" =>
                     /\ last.trace[1].body.table
                            = ifindex[last.args.interface] + ROUTE_TABLE_OFFSET_FROM_INDEX
                     /\ last.trace[1].body \in ipRoutes
              /\ RouteIn(RT_TABLE_MAIN, last.args.destination)
        /\ (Len(last.trace) = 2 /\ last.trace[2].res = -EEXIST) => last.ret = 0

C7_Witness ==
    /\ CallOf("addRoute") /\ last.ret = 0
    /\ last.args.tableType = "INTERFACE"
    /\ last.args.nexthop = NULL
    /\ last.args.destination = "10.0.0.0/24"
    /\ last.trace[1].res = 0
    /\ last.trace[2].body.table = RT_TABLE_MAIN /\ last.trace[2].res = -EEXIST
    /\ RouteIn(ifindex["wlan0"] + ROUTE_TABLE_OFFSET_FROM_INDEX, "10.0.0.0/24")
    /\ RouteIn(RT_TABLE_MAIN, "10.0.0.0/24")

\* the priority and the table of the k-th request of the call
PriorityAt(k) == last.trace[k].body.priority
TableAt(k) == last.trace[k].body.table

\* C8: a successful Init installs exactly three rules, in this order: the rule for
\* the main table at priority 20000, the rule for the legacy table at 16000, the
\* rule for the privileged legacy table at 11000, each once for IPv4 and once for
\* IPv6, and sends nothing else.
C8_InitInstallsThreeRules ==
    CallOf("Init") /\ last.ret = 0 =>
        /\ Len(last.trace) = 6
        /\ \A k \in 1..6 :
              /\ last.trace[k].kind = "rule" /\ last.trace[k].action = "RTM_NEWRULE"
              /\ last.trace[k].res = 0
              /\ last.trace[k].family = AF_FAMILIES[2 - (k % 2)]
        /\ <<PriorityAt(1), PriorityAt(3), PriorityAt(5)>> = <<20000, 16000, 11000>>
        /\ <<PriorityAt(2), PriorityAt(4), PriorityAt(6)>> = <<20000, 16000, 11000>>
        /\ <<TableAt(1), TableAt(3), TableAt(5)>>
               = <<RT_TABLE_MAIN, ROUTE_TABLE_LEGACY, ROUTE_TABLE_PRIVILEGED_LEGACY>>
        /\ <<TableAt(2), TableAt(4), TableAt(6)>>
               = <<RT_TABLE_MAIN, ROUTE_TABLE_LEGACY, ROUTE_TABLE_PRIVILEGED_LEGACY>>
        /\ \A f \in Families :
              /\ last.before.rules[f] \subseteq ipRules[f]
              /\ Cardinality(ipRules[f] \ last.before.rules[f]) = 3
              /\ {r.priority : r \in ipRules[f] \ last.before.rules[f]}
                     = {20000, 16000, 11000}
        /\ ipRoutes = last.before.routes /\ iptables = last.before.ipt

C8_Witness ==
    /\ CallOf("Init") /\ last.ret = 0
    /\ \A f \in Families : Cardinality(ipRules[f] \ last.before.rules[f]) = 3

\* the k-th request of the call is a rule request for the given family
RuleRequestAt(k, family) ==
    last.trace[k].kind = "rule" /\ last.trace[k].family = family

\* the two requests differ in the family and the answer at most
SameRule(p, q) ==
    /\ p.kind = q.kind /\ p.action = q.action /\ p.body = q.body

\* the change the rule request asks for is in effect for the family
Applied(req, family) ==
    IF req.action = "RTM_NEWRULE" THEN req.body \in ipRules[family]
    ELSE req.body \notin ipRules[family]

\* C9: every rule modification sends its request for IPv4 first and then the same
\* request for IPv6; the IPv6 request is sent only if the IPv4 request succeeded;
\* when the IPv6 request fails, its error is returned, nothing more is sent and the
\* IPv4 change stays in effect.
C9_Ipv4ThenIpv6 ==
    \A k \in 1..Len(last.trace) :
        /\ RuleRequestAt(k, AF_FAMILIES[1]) =>
              IF last.trace[k].res = 0
              THEN /\ k < Len(last.trace)
                   /\ RuleRequestAt(k + 1, AF_FAMILIES[2])
                   /\ SameRule(last.trace[k], last.trace[k + 1])
              ELSE k = Len(last.trace) /\ last.ret = last.trace[k].res
        /\ RuleRequestAt(k, AF_FAMILIES[2]) =>
              /\ k > 1
              /\ RuleRequestAt(k - 1, AF_FAMILIES[1])
              /\ SameRule(last.trace[k - 1], last.trace[k])
              /\ last.trace[k - 1].res = 0
              /\ last.trace[k].res # 0 =>
                     /\ k = Len(last.trace)
                     /\ last.ret = last.trace[k].res
                     /\ Applied(last.trace[k], AF_FAMILIES[1])

C9_Witness ==
    /\ CallOf("addToDefaultNetwork")
    /\ Len(last.trace) = 2
    /\ RuleRequestAt(1, "AF_INET") /\ last.trace[1].res = 0
    /\ RuleRequestAt(2, "AF_INET6") /\ last.trace[2].res = -ENOMEM
    /\ last.ret = -ENOMEM
    /\ last.trace[1].body \in ipRules["AF_INET"]
    /\ last.trace[1].body \notin last.before.rules["AF_INET"]
    /\ last.trace[2].body \notin ipRules["AF_INET6"]

\* the k-th request of the call is a route addition answered -EEXIST in one of the
\* two places where modifyRoute ignores that answer: the addition to a legacy
\* table, and the addition to the main table that follows the first one
IgnoredAt(k) ==
    /\ CallOf("addRoute")
    /\ last.trace[k].kind = "route" /\ last.trace[k].action = "RTM_NEWROUTE"
    /\ last.trace[k].res = -EEXIST
    /\ \/ k = 1 /\ last.args.tableType \in LegacyTables
       \/ k = 2 /\ last.trace[k].body.table = RT_TABLE_MAIN

\* C10: the only error of a kernel request that an operation does not return is
\* -EEXIST on a route addition, to a legacy table or to the main table after the
\* first addition; every other nonzero answer to a rule or route request ends the
\* operation and is its result, value unchanged.
C10_OnlyEexistIgnored ==
    \A k \in 1..Len(last.trace) :
        last.trace[k].kind \in {"rule", "route"} /\ last.trace[k].res # 0 =>
            IF IgnoredAt(k)
            THEN k = Len(last.trace) => last.ret = 0
            ELSE k = Len(last.trace) /\ last.ret = last.trace[k].res

C10_Witness ==
    /\ CallOf("addRoute")
    /\ last.args.tableType = "INTERFACE"
    /\ last.fault = NoFault
    /\ Len(last.trace) = 1
    /\ last.trace[1].res = -EEXIST
    /\ last.ret = -EEXIST

\* the operations made of several requests
Composites == {"Init", "addInterfaceToNetwork", "removeInterfaceFromNetwork",
               "addInterfaceToVpn", "removeInterfaceFromVpn", "modifyNetworkPermission"}

\* the error an operation reports for a failed request: the kernel's answer as it
\* is, -EREMOTEIO for a tool that exits with a nonzero status
ReportedError(req) ==
    IF req.kind \in {"rule", "route"} THEN req.res ELSE -EREMOTEIO

\* the k-th request is the last of the call to ask for a change of its object
LastWordOn(k) ==
    \A j \in (k + 1)..Len(last.trace) :
        ~(/\ last.trace[j].res = 0
          /\ last.trace[j].kind = last.trace[k].kind
          /\ last.trace[j].family = last.trace[k].family
          /\ last.trace[j].body = last.trace[k].body)

\* the change a successful request of the call made is in effect
InEffect(k) ==
    CASE last.trace[k].kind = "rule" -> Applied(last.trace[k], last.trace[k].family)
      [] last.trace[k].kind = "iptables" ->
            IF last.trace[k].action = "-A"
            THEN \E i \in 1..Len(iptables) : iptables[i] = last.trace[k].body
            ELSE Len(iptables) = Len(last.before.ipt) - 1
      [] OTHER -> TRUE

\* C11: a composite operation stops at its first failing request or tool
\* invocation: that one is the last it issues, the result is its error (the
\* kernel's answer, or -EREMOTEIO for a tool), and the changes of the requests that
\* succeeded before it are still in effect.
C11_StopsAtFirstFailure ==
    last.op \in Composites =>
        \A k \in 1..Len(last.trace) :
            /\ last.trace[k].res # 0 =>
                  /\ k = Len(last.trace)
                  /\ last.ret = ReportedError(last.trace[k])
            /\ (last.trace[k].res = 0 /\ LastWordOn(k)) => InEffect(k)

C11_Witness ==
    /\ CallOf("addInterfaceToNetwork")
    /\ Len(last.trace) = 3
    /\ last.trace[1].res = 0 /\ last.trace[2].res = 0
    /\ last.trace[3].res = -ENOMEM /\ last.ret = -ENOMEM
    /\ last.trace[1].body \in ipRules["AF_INET"]
    /\ last.trace[2].body \in ipRules["AF_INET6"]
    /\ last.trace[1].body \notin last.before.rules["AF_INET"]


\* the call just returned repeats, with nothing failing under it, a call of a
\* composite operation that failed after part of it had been applied
RetryOfPartial ==
    /\ last.op \in Composites
    /\ last.fault = NoFault
    /\ last.before.call.op = last.op
    /\ last.before.call.args = last.args
    /\ last.before.call.ret # 0
    /\ last.before.call.partial

BareBefore ==
    [ifx |-> last.before.ifx, rules |-> [f \in Families |-> {}], routes |-> {},
     ipt |-> <<>>, cache |-> last.before.cache, trace |-> <<>>, log |-> <<>>,
     fault |-> NoFault]

\* the outcome of installing, from nothing, the rules that the call just returned
\* adds (an add operation) or deletes (a remove operation)
OwnInstall ==
    CASE last.op = "Init" -> RouteController_Init(BareBefore)
      [] last.op \in {"addInterfaceToNetwork", "removeInterfaceFromNetwork"} ->
             addInterfaceToNetwork(BareBefore, last.args.netId, last.args.interface,
                                   last.args.permission)
      [] last.op = "addInterfaceToVpn" ->
             addInterfaceToVpn(BareBefore, last.args.netId, last.args.interface)
      [] last.op \in {"addToDefaultNetwork", "removeFromDefaultNetwork"} ->
             addToDefaultNetwork(BareBefore, last.args.interface, last.args.permission)

\* an add operation was called, nothing failing under it, while all its rules were
\* installed
AddOfPresent ==
    /\ last.op \in {"addInterfaceToNetwork", "addInterfaceToVpn", "addToDefaultNetwork",
                    "Init"}
    /\ last.fault = NoFault
    /\ OwnInstall.ret = 0
    /\ \A f \in Families : OwnInstall.w.rules[f] \subseteq last.before.rules[f]

\* a remove operation was called, nothing failing under it, while none of its
\* rules was installed
RemoveOfAbsent ==
    /\ last.op \in {"removeInterfaceFromNetwork", "removeFromDefaultNetwork"}
    /\ last.fault = NoFault
    /\ \A f \in Families : OwnInstall.w.rules[f] \cap last.before.rules[f] = {}

KernelUntouched ==
    /\ ipRules = last.before.rules
    /\ ipRoutes = last.before.routes
    /\ iptables = last.before.ipt

\* C13 as stated: an add operation re-invoked while all its rules are installed
\* returns already-exists, a remove operation invoked while none of its rules is
\* installed returns not-found, and either leaves the kernel's rules, the route
\* tables and the interface-index cache as they were
C13_HardErrorChangesNothing ==
    /\ AddOfPresent => last.ret = -EEXIST
    /\ RemoveOfAbsent => last.ret \in {-ENOENT, -ESRCH}
    /\ AddOfPresent \/ RemoveOfAbsent =>
            KernelUntouched /\ interfaceToIndex = last.before.cache

\* C13, amended: as stated for the results and for the kernel's rules and route
\* tables; the remove returns -ESRCH instead when the table cannot be resolved;
\* the cache is left as the call's own lookup leaves it: unchanged, or holding
\* the index just resolved for the call's interface
C13_HardErrorChangesNoRule ==
    /\ AddOfPresent => last.ret = -EEXIST /\ Len(last.trace) = 1
    /\ RemoveOfAbsent =>
            IF OwnInstall.ret = 0 THEN last.ret = -ENOENT /\ Len(last.trace) = 1
            ELSE last.ret = -ESRCH /\ last.trace = <<>>
    /\ AddOfPresent \/ RemoveOfAbsent =>
            /\ KernelUntouched
            /\ \/ interfaceToIndex = last.before.cache
               \/ /\ last.before.ifx[last.args.interface] # 0
                  /\ interfaceToIndex = MapPut(last.before.cache, last.args.interface,
                                               last.before.ifx[last.args.interface])

C13_Witness ==
    /\ AddOfPresent
    /\ CallOf("addInterfaceToNetwork")
    /\ last.before.call.op = "addInterfaceToVpn"
    /\ last.ret = -EEXIST
    /\ KernelUntouched

\* the call just returned ran the bulk flush of flushRoutes, and it failed
FlushFailed ==
    /\ last.op \in {"removeInterfaceFromNetwork", "removeInterfaceFromVpn"}
    /\ \E k \in 1..Len(last.trace) :
           last.trace[k].kind = "exec" /\ last.trace[k].res # 0

\* C14: flushRoutes forgets the cached index only after the routes were flushed
\* for both families: when the flush fails for either family, flushRoutes
\* returns an error and the cache still holds the entry for that interface
C14_FailedFlushKeepsCache ==
    FlushFailed =>
        /\ last.ret # 0
        /\ last.args.interface \in DOMAIN interfaceToIndex

\* the call just returned is a detach that nothing failed under
Detach ==
    /\ last.op \in {"removeInterfaceFromNetwork", "removeInterfaceFromVpn"}
    /\ last.fault = NoFault

\* the detach did not get all its rules (and its iptables entry) deleted
DeletionFailed ==
    \/ last.trace = <<>>
    \/ \E k \in 1..Len(last.trace) :
           last.trace[k].kind \in {"rule", "iptables"} /\ last.trace[k].res # 0

\* C15: a detach whose rule deletions all succeeded flushes and forgets: it
\* returns success, the interface's table holds no route in either family and
\* the cache has no entry for the name; a detach with a failed rule deletion
\* leaves the routes and the cache entry alone
C15_DetachFlushesAndForgets ==
    Detach =>
        IF DeletionFailed
        THEN /\ ipRoutes = last.before.routes
             /\ last.args.interface \in DOMAIN last.before.cache =>
                    last.args.interface \in DOMAIN interfaceToIndex
        ELSE /\ last.ret = 0
             /\ \A r \in ipRoutes : r.table # last.trace[1].body.table
             /\ last.args.interface \notin DOMAIN interfaceToIndex

\* a rule for the table with the given selector, for any uid
RuleBody(priority, table, fwmark, mask, oif) ==
    [priority |-> priority, table |-> table, fwmark |-> fwmark, mask |-> mask,
     oif |-> oif, uidStart |-> INVALID_UID, uidEnd |-> INVALID_UID]

\* the five rules of a VPN on the interface, in the order they are installed
VpnRules(table, netId, interface) ==
    LET none == Fwmark
        anyNet == [Fwmark EXCEPT !.netId = FWMARK_NET_ID_MASK]
        net == [Fwmark EXCEPT !.netId = netId]
        internal == PERMISSION_CONNECTIVITY_INTERNAL
    IN
    << RuleBody(RULE_PRIORITY_PER_NETWORK_INTERFACE, table, 0, 0, interface),
       RuleBody(RULE_PRIORITY_PER_NETWORK_NORMAL, table, intValue(net), intValue(anyNet),
                NULL),
       RuleBody(RULE_PRIORITY_PER_NETWORK_EXPLICIT, table,
                intValue([net EXCEPT !.explicitlySelected = TRUE]),
                intValue([anyNet EXCEPT !.explicitlySelected = TRUE]), NULL),
       RuleBody(RULE_PRIORITY_SECURE_VPN, table, intValue(none),
                intValue([none EXCEPT !.protectedFromVpn = TRUE]), NULL),
       RuleBody(RULE_PRIORITY_SECURE_VPN, table,
                intValue([net EXCEPT !.permission = internal]),
                intValue([anyNet EXCEPT !.permission = internal]), NULL) >>

\* the rules the call just returned asked for in the family, in order
RuleBodiesSent(family) ==
    LET IsRule(req) == req.kind = "rule" /\ req.family = family
        sent == SelectSeq(last.trace, IsRule)
    IN [k \in 1..Len(sent) |-> sent[k].body]

Range(seq) == {seq[k] : k \in 1..Len(seq)}

\* C16: a successful addInterfaceToVpn installs, in each family, exactly five
\* rules for the interface's table, in this order: 14000 by outgoing interface,
\* 17000 by netId, 13000 by netId and explicitlySelected, none requiring a
\* permission; then at 12000 the catch-all that requires only the
\* protected-from-VPN bit clear, and the exemption that requires the netId and
\* the internal-connectivity permission and not the protected bit
C16_VpnInstallsFiveRules ==
    CallOf("addInterfaceToVpn") /\ last.ret = 0 =>
        \A f \in Families :
            LET expected == VpnRules(interfaceToIndex[last.args.interface]
                                         + ROUTE_TABLE_OFFSET_FROM_INDEX,
                                     last.args.netId, last.args.interface)
            IN /\ RuleBodiesSent(f) = expected
               /\ \A k \in 1..Len(last.trace) :
                      last.trace[k].kind = "rule" => last.trace[k].action = "RTM_NEWRULE"
               /\ ipRules[f] \ last.before.rules[f] = Range(expected)
               /\ last.before.rules[f] \subseteq ipRules[f]
               /\ Cardinality(Range(expected)) = 5

C16_Witness ==
    /\ CallOf("addInterfaceToVpn")
    /\ last.ret = 0
    /\ Cardinality(ipRules["AF_INET"]) = 5
    /\ Cardinality(ipRules["AF_INET6"]) = 5
    /\ \E r \in ipRules["AF_INET6"] :
           /\ r.priority = RULE_PRIORITY_SECURE_VPN
           /\ r.mask = intValue([Fwmark EXCEPT !.protectedFromVpn = TRUE])

\* the call just returned is a removeInterfaceFromVpn, nothing failing under it,
\* that directly follows a successful addInterfaceToVpn with the same arguments
VpnDetachAfterAttach ==
    /\ CallOf("removeInterfaceFromVpn")
    /\ last.fault = NoFault
    /\ last.before.call.op = "addInterfaceToVpn"
    /\ last.before.call.args = last.args
    /\ last.before.call.ret = 0

\* the rule set is the one before the call less the five rules of the VPN
VpnRulesRemoved ==
    \A f \in Families :
        ipRules[f] = last.before.rules[f]
                        \ Range(VpnRules(last.before.cache[last.args.interface]
                                             + ROUTE_TABLE_OFFSET_FROM_INDEX,
                                         last.args.netId, last.args.interface))

Unpack(m) ==
    [netId |-> m % 65536, explicitlySelected |-> (m \div 65536) % 2 = 1,
     protectedFromVpn |-> (m \div 131072) % 2 = 1, permission |-> m \div 262144]

\* the kinds of rule, in the order of their bands
Kinds == << "privileged-legacy", "secure-VPN", "per-network-explicit",
            "per-network-interface", "legacy", "per-network-normal", "default-network",
            "main" >>

Band == << RULE_PRIORITY_PRIVILEGED_LEGACY, RULE_PRIORITY_SECURE_VPN,
           RULE_PRIORITY_PER_NETWORK_EXPLICIT, RULE_PRIORITY_PER_NETWORK_INTERFACE,
           RULE_PRIORITY_LEGACY, RULE_PRIORITY_PER_NETWORK_NORMAL,
           RULE_PRIORITY_DEFAULT_NETWORK, RULE_PRIORITY_MAIN >>

\* the rule looks up the table of an interface
Derived(r) == r.table > ROUTE_TABLE_OFFSET_FROM_INDEX

\* the rule has the table and the selector of the kind.  The exemption rule of a
\* VPN and the by-netId rule of a network that requires the internal-connectivity
\* permission select the same packets, so a rule can have the shape of two kinds.
HasShape(r, kind) ==
    LET mark == Unpack(r.fwmark)
        mask == Unpack(r.mask)
        byNet == /\ Derived(r) /\ r.oif = NULL
                 /\ mask.netId = FWMARK_NET_ID_MASK /\ mark.netId # 0
                 /\ ~mask.protectedFromVpn
    IN CASE kind = "privileged-legacy" -> r.table = ROUTE_TABLE_PRIVILEGED_LEGACY
         [] kind = "legacy" -> r.table = ROUTE_TABLE_LEGACY
         [] kind = "main" -> r.table = RT_TABLE_MAIN
         [] kind = "per-network-interface" -> Derived(r) /\ r.oif # NULL
         [] kind = "per-network-explicit" -> byNet /\ mask.explicitlySelected
         [] kind = "per-network-normal" -> byNet /\ ~mask.explicitlySelected
         [] kind = "secure-VPN" ->
                \/ /\ Derived(r) /\ r.oif = NULL
                   /\ r.mask = intValue([Fwmark EXCEPT !.protectedFromVpn = TRUE])
                   /\ r.fwmark = 0
                \/ /\ byNet /\ ~mask.explicitlySelected
                   /\ mask.permission = PERMISSION_CONNECTIVITY_INTERNAL
                   /\ mark.permission = PERMISSION_CONNECTIVITY_INTERNAL
         [] kind = "default-network" ->
                /\ Derived(r) /\ r.oif = NULL
                /\ mask.netId = FWMARK_NET_ID_MASK /\ mark.netId = 0
                /\ ~mask.explicitlySelected /\ ~mask.protectedFromVpn

\* the rule is of the kind: it has its shape and its band
OfKind(r, kind) == \E k \in 1..Len(Kinds) :
                      Kinds[k] = kind /\ HasShape(r, kind) /\ r.priority = Band[k]

\* C18: every installed rule carries the band priority of its kind; the bands
\* increase strictly in the order privileged-legacy, secure-VPN,
\* per-network-explicit, per-network-interface, legacy, per-network-normal,
\* default-network, main; so the VPN rules come before every per-network rule and
\* the default-network rule before the main-table rule
C18_RulesInTheirBands ==
    /\ \A f \in Families : \A r \in ipRules[f] :
            \E k \in 1..Len(Kinds) : OfKind(r, Kinds[k])
    /\ \A j, k \in 1..Len(Band) : j < k => Band[j] < Band[k]
    /\ \A f \in Families : \A r, q \in ipRules[f] :
            /\ ( /\ OfKind(r, "secure-VPN")
                 /\ \/ OfKind(q, "per-network-explicit")
                    \/ OfKind(q, "per-network-interface")
                    \/ OfKind(q, "per-network-normal") ) => r.priority < q.priority
            /\ OfKind(r, "default-network") /\ OfKind(q, "main") =>
                    r.priority < q.priority

C18_Witness ==
    /\ Cardinality({r.priority : r \in ipRules["AF_INET"]}) = 7
    /\ \E r \in ipRules["AF_INET6"] : OfKind(r, "secure-VPN")
    /\ \E r \in ipRules["AF_INET6"] : OfKind(r, "main")

\* the operations that need the table of an interface
NeedTable ==
    \/ last.op \in {"addInterfaceToNetwork", "removeInterfaceFromNetwork",
                    "addInterfaceToVpn", "removeInterfaceFromVpn",
                    "modifyNetworkPermission", "addToDefaultNetwork",
                    "removeFromDefaultNetwork"}
    \/ last.op \in {"addRoute", "removeRoute"} /\ last.args.tableType = "INTERFACE"

\* when the call was made, its interface neither existed nor was in the cache
Unresolvable ==
    /\ if_nametoindex(last.before.ifx, last.args.interface) = 0
    /\ last.args.interface \notin DOMAIN last.before.cache

\* C19: when the name can neither be resolved nor is in the cache, every
\* operation that needs the interface's table returns -ESRCH without sending a
\* request or running a tool, and leaves the cache (and the kernel) unchanged;
\* so does flushRoutes, in whatever state it is entered
C19_UnresolvableIsEsrch ==
    /\ NeedTable /\ Unresolvable =>
            /\ last.ret = -ESRCH
            /\ last.trace = <<>>
            /\ interfaceToIndex = last.before.cache
            /\ KernelUntouched
    /\ \A i \in Interfaces :
            if_nametoindex(ifindex, i) = 0 /\ i \notin DOMAIN interfaceToIndex =>
                \A r \in {flushRoutes(World(NoFault), i)} :
                    /\ r.ret = -ESRCH
                    /\ r.w.trace = <<>>
                    /\ r.w.cache = interfaceToIndex

C19_Witness ==
    /\ CallOf("addRoute")
    /\ NeedTable
    /\ Unresolvable
    /\ last.ret = -ESRCH
    /\ last.trace = <<>>
    /\ interfaceToIndex = <<>>

\* the index of the most recent successful resolution of the name since the last
\* flushRoutes of that name, 0 when there is none
Remembered(live, flushed, name) ==
    IF live[name] # 0 /\ ~flushed[name]
    THEN live[name] - ROUTE_TABLE_OFFSET_FROM_INDEX ELSE 0

\* the k-th entry of the log is a lookup
LookupAt(k) == last.log[k].ev = "resolve"

\* C20: the cache holds, for each name, exactly the index of the most recent
\* successful resolution since the last flushRoutes of that name: a successful
\* resolution writes the index just resolved, a failed one changes nothing, and
\* only flushRoutes removes an entry; and the table returned for a name is that
\* index plus the offset, or 0 when there is none and the name does not resolve
C20_CacheLifecycle ==
    /\ DOMAIN interfaceToIndex \subseteq Interfaces
    /\ \A i \in Interfaces :
            IF Remembered(lastLive, flushedSince, i) # 0
            THEN /\ i \in DOMAIN interfaceToIndex
                 /\ interfaceToIndex[i] = Remembered(lastLive, flushedSince, i)
            ELSE i \notin DOMAIN interfaceToIndex
    /\ \A k \in 1..Len(last.log) :
            /\ LookupAt(k) =>
                   /\ last.log[k].index = if_nametoindex(last.before.ifx, last.log[k].name)
                   /\ last.log[k].table =
                          IF last.log[k].index # 0
                          THEN last.log[k].index + ROUTE_TABLE_OFFSET_FROM_INDEX
                          ELSE IF Remembered(LiveBefore(k), FlushedBefore(k),
                                             last.log[k].name) # 0
                          THEN Remembered(LiveBefore(k), FlushedBefore(k), last.log[k].name)
                                   + ROUTE_TABLE_OFFSET_FROM_INDEX
                          ELSE 0
            /\ ~LookupAt(k) =>
                   /\ last.op \in {"removeInterfaceFromNetwork", "removeInterfaceFromVpn"}
                   /\ last.log[k].name = last.args.interface
                   /\ k = Len(last.log)
    /\ (\A k \in 1..Len(last.log) : LookupAt(k) /\ last.log[k].index = 0) =>
            interfaceToIndex = last.before.cache

C20_Witness ==
    /\ last.log # <<>>
    /\ LookupAt(1)
    /\ last.log[1].index = 0
    /\ last.log[1].table = 0
    /\ lastLive[last.log[1].name] # 0
    /\ flushedSince[last.log[1].name]

\* the system calls of the one request of the call just returned
Calls == last.trace[1].calls

\* how many times the request made the system call
Times(call) == Cardinality({k \in 1..Len(Calls) : Calls[k].call = call})

\* sockets opened and not closed when the request returned
SocketsHeld ==
    Cardinality({k \in 1..Len(Calls) : Calls[k].call = "socket" /\ Calls[k].ok})
        - Times("close")

\* C21: sendNetlinkRequest holds no socket when it returns: on every exit path
\* the socket it opened has been closed exactly once (and none is closed when none
\* was opened), after everything else; it sends at most one datagram and reads at
\* most once; and it returns the errno of the failing call, -EBADMSG for an
\* acknowledgment of the wrong size, else the kernel's answer
C21_NoSocketHeld ==
    CallOf("sendNetlinkRequest") =>
        /\ Len(last.trace) = 1
        /\ SocketsHeld = 0
        /\ Times("socket") = 1
        /\ Times("close") = (IF last.fault.stage = "socket" THEN 0 ELSE 1)
        /\ Times("close") = 1 => Calls[Len(Calls)].call = "close"
        /\ Times("writev") <= 1
        /\ Times("recv") <= 1
        /\ Times("recv") = 1 => Times("writev") = 1
        /\ \A k \in 1..Len(Calls) : ~Calls[k].ok => Calls[k].call = last.fault.stage
        /\ last.ret = CASE last.fault.stage = "none" ->
                              KernelAnswer([BareBefore EXCEPT !.rules = last.before.rules],
                                           SendRequest(last.args)).ret
                         [] last.fault.stage = "size" -> -EBADMSG
                         [] OTHER -> last.fault.err

C21_Witness ==
    /\ CallOf("sendNetlinkRequest")
    /\ last.fault.stage = "recv"
    /\ Times("writev") = 1
    /\ Times("close") = 1
    /\ last.ret = -ENOMEM
    /\ ipRules # last.before.rules

\* the kernel's rules after the first k requests of the call just returned, from
\* the answers they got
RECURSIVE RulesAfter(_)
RulesAfter(k) ==
    IF k = 0 THEN last.before.rules
    ELSE LET req == last.trace[k]
             rules == RulesAfter(k - 1)
         IN IF req.kind # "rule" \/ req.res # 0 THEN rules
            ELSE IF req.action = "RTM_NEWRULE"
            THEN [rules EXCEPT ![req.family] = @ \cup {req.body}]
            ELSE [rules EXCEPT ![req.family] = @ \ {req.body}]

\* the outcome of installing, from nothing, the per-network rules of the call's
\* network and interface for the permission
PerNetworkInstall(permission) ==
    modifyPerNetworkRules(BareBefore, last.args.netId, last.args.interface, permission,
                          TRUE, FALSE)

\* the complete per-network rule set for the permission is in the rules, in both
\* families
Complete(permission, rules) ==
    \A f \in Families : /\ PerNetworkInstall(permission).w.rules[f] # {}
                         /\ PerNetworkInstall(permission).w.rules[f] \subseteq rules[f]

\* modifyNetworkPermission was called with the rule set of its old permission
\* complete
PermissionChangeOfInstalled ==
    /\ CallOf("modifyNetworkPermission")
    /\ PerNetworkInstall(last.args.oldPermission).ret = 0
    /\ Complete(last.args.oldPermission, last.before.rules)

\* C22: when modifyNetworkPermission starts with the complete rule set of the old
\* permission installed, then after each of its requests and when it returns,
\* with success or with the failure of any request, the complete rule set of the
\* old or of the new permission is installed in both families; with equal
\* permissions it fails on its first add and deletes nothing
C22_AlwaysOneCompleteRuleSet ==
    PermissionChangeOfInstalled =>
        /\ RulesAfter(Len(last.trace)) = ipRules
        /\ \A k \in 0..Len(last.trace) :
               \/ Complete(last.args.oldPermission, RulesAfter(k))
               \/ Complete(last.args.permission, RulesAfter(k))
        /\ last.args.oldPermission = last.args.permission =>
               /\ Len(last.trace) = 1
               /\ last.trace[1].action = "RTM_NEWRULE"
               /\ last.ret # 0
               /\ ipRules = last.before.rules

C22_Witness ==
    /\ PermissionChangeOfInstalled
    /\ last.args.oldPermission # last.args.permission
    /\ last.fault # NoFault
    /\ Len(last.trace) = 9
    /\ Complete(last.args.permission, ipRules)
    /\ ~Complete(last.args.oldPermission, ipRules)

\* the call just returned is a removeRoute of a route with no nexthop
RemoveDirectRoute == CallOf("removeRoute") /\ last.args.nexthop = NULL

\* it succeeded, directly after a successful addRoute with the same arguments
RouteAddedThenRemoved ==
    /\ RemoveDirectRoute
    /\ last.ret = 0
    /\ last.before.call.op = "addRoute"
    /\ last.before.call.args = last.args
    /\ last.before.call.ret = 0

\* C23: for a route with no nexthop, after a successful addRoute and then a
\* successful removeRoute with the same arguments the destination has a route
\* neither in the target table nor in the main table, also when the main table
\* held the route before the addRoute; and a removeRoute that fails on the target
\* table returns that error and sends no delete for the main table
C23_RouteRoundTrip ==
    /\ RouteAddedThenRemoved =>
            /\ Len(last.trace) = 2
            /\ TableAt(2) = RT_TABLE_MAIN
            /\ ~RouteIn(TableAt(1), last.args.destination)
            /\ ~RouteIn(RT_TABLE_MAIN, last.args.destination)
    /\ RemoveDirectRoute /\ last.trace # <<>> =>
            IF last.trace[1].res # 0
            THEN /\ Len(last.trace) = 1
                 /\ last.ret = last.trace[1].res
                 /\ ipRoutes = last.before.routes
            ELSE Len(last.trace) = 2 /\ TableAt(2) = RT_TABLE_MAIN
    /\ RemoveDirectRoute /\ last.trace = <<>> => last.ret # 0

\* the round trip of a route to an interface's table whose main-table copy was
\* there before: it came with the legacy route to the same destination
C23_Witness ==
    /\ RouteAddedThenRemoved
    /\ last.args.tableType = "INTERFACE"
    /\ \E r \in ipRoutes : /\ r.table = ROUTE_TABLE_LEGACY
                            /\ r.dst = last.args.destination
                            /\ r.gw = NULL
    /\ \E r \in last.before.routes : r.table = RT_TABLE_MAIN
    /\ ~RouteIn(RT_TABLE_MAIN, last.args.destination)

\* the operations that build rules, with the number of rule requests each sends
\* when no request fails
RuleRequests ==
    [Init |-> 6, addInterfaceToNetwork |-> 6, removeInterfaceFromNetwork |-> 6,
     addInterfaceToVpn |-> 10, removeInterfaceFromVpn |-> 10,
     modifyNetworkPermission |-> 12, addToDefaultNetwork |-> 2,
     removeFromDefaultNetwork |-> 2]

\* the rule requests the call just returned got acknowledged
RulesAcknowledged ==
    {k \in 1..Len(last.trace) : last.trace[k].kind = "rule" /\ last.trace[k].res = 0}

\* C24: every mark and mask that Init, modifyPerNetworkRules, modifyVpnRules and
\* modifyDefaultNetworkRules build, for every netId and permission, pass the
\* test mark & ~mask == 0: the call builds all its rules, sends each with a mark
\* inside its mask, and does not return -ERANGE
C24_MarksWithinMasks ==
    last.op \in DOMAIN RuleRequests =>
        /\ last.ret # -ERANGE
        /\ Cardinality(RulesAcknowledged) = RuleRequests[last.op]
        /\ \A k \in 1..Len(last.trace) :
               last.trace[k].kind = "rule" =>
                   AndNot(last.trace[k].body.fwmark, last.trace[k].body.mask) = 0

C24_Witness ==
    /\ CallOf("removeInterfaceFromVpn")
    /\ last.args.netId = 65541
    /\ Cardinality(RulesAcknowledged) = 10
    /\ \E k \in 1..Len(last.trace) :
           /\ last.trace[k].kind = "rule"
           /\ last.trace[k].body.fwmark
                  = intValue([Fwmark EXCEPT !.netId = 5,
                                            !.permission = PERMISSION_CONNECTIVITY_INTERNAL])
====
